---- MODULE Spec2Model ----
(***************************************************************************)
(* Temporal feature and labeling engine of the F1 incident-risk pipeline:  *)
(* label assignment (build_timeline/labeler.py), the as-of join            *)
(* (features/asof_join.py), the rolling-window helpers                     *)
(* (features/rolling_utils.py), the event detector                         *)
(* (build_timeline/label_detector.py), the timeline builder                *)
(* (build_timeline/timeline_builder.py) and the alert policy analysis      *)
(* (eval/alert_analysis.py).                                               *)
(*                                                                         *)
(* Every operation is a function of its arguments.  A behaviour is one     *)
(* call: the initial state holds the function name and its arguments       *)
(* (pc = "call"); the action of that function evaluates it and stores the  *)
(* returned value (pc = "return").  Timestamps are integers (seconds);     *)
(* an optional value (None, NaT) is the empty tuple and a present one the  *)
(* 1-tuple; a float cell is a record num/den/root with NaN = 0/0.          *)
(***************************************************************************)
EXTENDS Integers, Sequences, FiniteSets

VARIABLES pc, fn, args, ret

vars == <<pc, fn, args, ret>>

(***************************************************************************)
(* Bounds of the explored inputs.                                          *)
(***************************************************************************)
MaxT == 4
MaxGrid == 3
MaxInterval == 2
MaxEvents == 2
MaxArg == 3
MaxJoinT == 3
MaxLeft == 2
MaxRight == 2
MaxTol == 2
MaxRollT == 2
MaxRows == 2
MaxWindow == 2
MaxWords == 2
MaxTick == 4
MaxLogRows == 3
MaxSessions == 3
MaxAlertRows == 2
MaxThresholds == 2

MaxSplitRows == 3

MaxSplitT == 2

MaxSpan == 2

MaxTableRows == 2

MaxDirs == 2

(***************************************************************************)
(* Optional values: None / NaT / a missing argument.                       *)
(***************************************************************************)
None == <<>>

Some(x) == <<x>>

Val(o) == o[1]

\* Python truthiness of an `int | None` argument: None and 0 are falsy.
Truthy(o) == o # None /\ Val(o) # 0

Min(a, b) == IF a <= b THEN a ELSE b

SeqRange(s) == {s[i] : i \in DOMAIN s}

RECURSIVE SeqsUpTo(_, _)
SeqsUpTo(S, n) ==
    IF n = 0 THEN {<<>>}
    ELSE LET shorter == SeqsUpTo(S, n - 1)
         IN  shorter \cup {Append(s, x) : s \in {q \in shorter : Len(q) = n - 1}, x \in S}

IsAscending(s) == \A i \in 1..(Len(s) - 1) : s[i] <= s[i + 1]

Max(S) == CHOOSE x \in S : \A y \in S : y <= x

Minimum(S) == CHOOSE x \in S : \A y \in S : x <= y

(***************************************************************************)
(* Float cells: num/den, or its square root when root is TRUE; NaN = 0/0.  *)
(***************************************************************************)
F(n) == [num |-> n, den |-> 1, root |-> FALSE]

NaN == [num |-> 0, den |-> 0, root |-> FALSE]

(***************************************************************************)
(* DataFrames: a set of column names and a sequence of rows, each row a    *)
(* function from the column names to cells.                                *)
(***************************************************************************)
Table(columns, rows) == [columns |-> columns, rows |-> rows]

Restrict(row, columns) == [c \in columns |-> row[c]]

\* df.drop(columns=...)
DropColumns(df, dropped) ==
    Table(df.columns \ dropped,
          [i \in DOMAIN df.rows |-> Restrict(df.rows[i], df.columns \ dropped)])

\* df[df[col] == key]
FilterEq(df, col, key) == [df EXCEPT !.rows = SelectSeq(df.rows, LAMBDA r : r[col] = key)]

(***************************************************************************)
(* config.py: FeatureConfig defaults.                                      *)
(***************************************************************************)
prediction_horizon_seconds == 300

time_to_event_cap == 1800

(***************************************************************************)
(* labeler.py: assign_labels.                                              *)
(***************************************************************************)
\* horizon = horizon_seconds or cfg.features.prediction_horizon_seconds
Horizon(horizon_seconds) ==
    IF Truthy(horizon_seconds) THEN Val(horizon_seconds) ELSE prediction_horizon_seconds

\* cap = cap_seconds or cfg.features.time_to_event_cap
Cap(cap_seconds) ==
    IF Truthy(cap_seconds) THEN Val(cap_seconds) ELSE time_to_event_cap

\* future_events = event_ts[event_ts > t]
FutureEvents(event_ts, t) == SelectSeq(event_ts, LAMBDA e : e > t)

LabelBelowHorizon(delta_seconds, horizon) == IF delta_seconds < horizon THEN 1 ELSE 0

\* if delta_seconds <= horizon: y_labels[i] = 1
LabelWithinHorizon(delta_seconds, horizon) == IF delta_seconds <= horizon THEN 1 ELSE 0

TimeToNextUncapped(delta_seconds, cap) == delta_seconds

\* A time-to-event that takes the larger of the gap and the cap.
TimeToNextAtLeastCap(delta_seconds, cap) == IF delta_seconds >= cap THEN delta_seconds ELSE cap

\* time_to_next[i] = min(delta_seconds, cap)
TimeToNext(delta_seconds, cap) == Min(delta_seconds, cap)

\* One iteration of the loop over the grid: the two label cells of grid row t.
LabelRow(row, event_ts, horizon, cap) ==
    LET future_events == FutureEvents(event_ts, row.timestamp)
    IN  IF Len(future_events) = 0
        THEN [timestamp |-> row.timestamp, session_key |-> row.session_key,
              y_sc_5m |-> 0, time_to_sc_seconds |-> cap]
        ELSE LET delta_seconds == future_events[1] - row.timestamp
             IN  [timestamp |-> row.timestamp, session_key |-> row.session_key,
                  y_sc_5m |-> LabelWithinHorizon(delta_seconds, horizon),
                  time_to_sc_seconds |-> TimeToNext(delta_seconds, cap)]

NoEventRow(row, cap) ==
    [timestamp |-> row.timestamp, session_key |-> row.session_key,
     y_sc_5m |-> 0, time_to_sc_seconds |-> cap]

assign_labels(timeline_df, sc_events, horizon_seconds, cap_seconds) ==
    LET horizon == Horizon(horizon_seconds)
        cap == Cap(cap_seconds)
    IN  IF Len(sc_events) = 0
        THEN [i \in DOMAIN timeline_df |-> NoEventRow(timeline_df[i], cap)]
        ELSE [i \in DOMAIN timeline_df |-> LabelRow(timeline_df[i], sc_events, horizon, cap)]

(***************************************************************************)
(* Inputs of assign_labels.                                                *)
(***************************************************************************)
\* A uniform grid of n points: start, start + interval, ...
GridTimes(start, interval, n) == [k \in 1..n |-> start + (k - 1) * interval]

TimelineOf(times, session_key) ==
    [k \in DOMAIN times |-> [timestamp |-> times[k], session_key |-> session_key]]

GridInputs ==
    {GridTimes(s, i, n) : s \in 0..1, i \in 1..MaxInterval, n \in 0..MaxGrid}

EventInputs == {e \in SeqsUpTo(0..MaxT, MaxEvents) : IsAscending(e)}

OptArgs == {None} \cup {Some(n) : n \in 0..MaxArg}

\* tests/conftest.py sample_timeline: a 1-hour session on a 30 s grid, with
\* one event at minute 30 and a horizon of 300 s.
ScenarioGrid == GridTimes(0, 30, 120)

ScenarioEvent == 30 * 60

LabelArgs ==
    {[timeline_df |-> TimelineOf(g, 1), sc_events |-> e,
      horizon_seconds |-> h, cap_seconds |-> c] :
        g \in GridInputs, e \in EventInputs, h \in OptArgs, c \in OptArgs}
    \cup
    {[timeline_df |-> TimelineOf(ScenarioGrid, 1), sc_events |-> e,
      horizon_seconds |-> h, cap_seconds |-> None] :
        e \in {<<>>, <<ScenarioEvent>>}, h \in {None, Some(prediction_horizon_seconds)}}

InitLabel ==
    /\ pc = "call"
    /\ fn = "assign_labels"
    /\ args \in LabelArgs
    /\ ret = None

AssignLabels ==
    /\ pc = "call"
    /\ fn = "assign_labels"
    /\ ret' = assign_labels(args.timeline_df, args.sc_events,
                            args.horizon_seconds, args.cap_seconds)
    /\ pc' = "return"
    /\ UNCHANGED <<fn, args>>

NextLabel == AssignLabels

SpecLabel == InitLabel /\ [][NextLabel]_vars

(***************************************************************************)
(* Properties of assign_labels.                                            *)
(***************************************************************************)
\* The event timestamps strictly after t, whatever their position in the list.
EventsAfter(sc_events, t) == {e \in SeqRange(sc_events) : e > t}

Returned(name) == pc = "return" /\ fn = name

IsScenarioCall ==
    /\ args.timeline_df = TimelineOf(ScenarioGrid, 1)
    /\ args.sc_events = <<ScenarioEvent>>
    /\ Horizon(args.horizon_seconds) = 300

\* C1: for an ascending event list, every grid row is labelled 1 exactly when
\* the earliest event strictly after its timestamp exists and lies at most
\* `horizon` seconds later (horizon being the value the labelling loop uses);
\* on the 30 s grid with one event at minute 30 and horizon 300 s exactly the
\* 10 grid points 25:00 .. 29:30 are labelled 1.
C1_LabelIffNextEventWithinHorizon ==
    (Returned("assign_labels") /\ IsAscending(args.sc_events)) =>
        /\ DOMAIN ret = DOMAIN args.timeline_df
        /\ \A i \in DOMAIN ret :
              LET t == args.timeline_df[i].timestamp
                  after == EventsAfter(args.sc_events, t)
              IN  ret[i].y_sc_5m =
                      IF after # {} /\ Minimum(after) - t <= Horizon(args.horizon_seconds)
                      THEN 1 ELSE 0
        /\ IsScenarioCall => {i \in DOMAIN ret : ret[i].y_sc_5m = 1} = 51..60

\* A grid point exactly `horizon` before an event is labelled 1 and a grid
\* point on an event's own timestamp, with no later event, is labelled 0.
C1_Witness ==
    /\ Returned("assign_labels")
    /\ IsAscending(args.sc_events)
    /\ \E i \in DOMAIN ret :
          /\ ret[i].timestamp + Horizon(args.horizon_seconds) \in SeqRange(args.sc_events)
          /\ EventsAfter(args.sc_events, ret[i].timestamp)
                 = {ret[i].timestamp + Horizon(args.horizon_seconds)}
          /\ ret[i].y_sc_5m = 1
    /\ \E j \in DOMAIN ret :
          /\ ret[j].timestamp \in SeqRange(args.sc_events)
          /\ ret[j].y_sc_5m = 0

\* The scenario of the 1-hour session is labelled.
C1_ScenarioWitness ==
    /\ Returned("assign_labels")
    /\ IsScenarioCall
    /\ Cardinality({i \in DOMAIN ret : ret[i].y_sc_5m = 1}) = 10

\* C2: for an ascending event list, every grid row's time-to-event is
\* min(e - t, cap) for the earliest event e strictly after t, and cap when
\* there is none; so it is greater than 0 and at most cap.
C2_TimeToEventIsCappedGap ==
    (Returned("assign_labels") /\ IsAscending(args.sc_events)) =>
        \A i \in DOMAIN ret :
            LET t == args.timeline_df[i].timestamp
                after == EventsAfter(args.sc_events, t)
                cap == Cap(args.cap_seconds)
            IN  /\ ret[i].time_to_sc_seconds =
                        IF after # {} THEN Min(Minimum(after) - t, cap) ELSE cap
                /\ ret[i].time_to_sc_seconds > 0
                /\ ret[i].time_to_sc_seconds <= cap

\* One call with a gap above the cap, a gap below it and a row with no
\* future event.
C2_Witness ==
    /\ Returned("assign_labels")
    /\ IsAscending(args.sc_events)
    /\ \E i, j, k \in DOMAIN ret :
          LET cap == Cap(args.cap_seconds)
              gap(n) == Minimum(EventsAfter(args.sc_events, ret[n].timestamp))
                            - ret[n].timestamp
          IN  /\ EventsAfter(args.sc_events, ret[i].timestamp) # {}
              /\ gap(i) > cap
              /\ ret[i].time_to_sc_seconds = cap
              /\ EventsAfter(args.sc_events, ret[j].timestamp) # {}
              /\ gap(j) < cap
              /\ ret[j].time_to_sc_seconds = gap(j)
              /\ EventsAfter(args.sc_events, ret[k].timestamp) = {}
              /\ ret[k].time_to_sc_seconds = cap

\* The cap the caller asked for: the argument when given, else the default.
CallerCap(cap_seconds) == IF cap_seconds = None THEN time_to_event_cap ELSE Val(cap_seconds)

\* C3: with an empty event list every grid row has label 0 and a
\* time-to-event equal to the cap passed by the caller, for every grid and
\* every cap.
C3_NoEventsAllZeroAtCallerCap ==
    (Returned("assign_labels") /\ args.sc_events = <<>>) =>
        \A i \in DOMAIN ret :
            /\ ret[i].y_sc_5m = 0
            /\ ret[i].time_to_sc_seconds = CallerCap(args.cap_seconds)

(***************************************************************************)
(* asof_join.py: asof_join.                                                *)
(***************************************************************************)
\* Insert row behind every row of an ascending sequence whose key is <= its
\* own (rows with equal keys keep their input order).
RECURSIVE InsertByKey(_, _, _)
InsertByKey(sorted, row, on) ==
    IF sorted = <<>> THEN <<row>>
    ELSE IF sorted[Len(sorted)][on] <= row[on] THEN Append(sorted, row)
    ELSE Append(InsertByKey(SubSeq(sorted, 1, Len(sorted) - 1), row, on),
                sorted[Len(sorted)])

\* df.sort_values(on).reset_index(drop=True)
RECURSIVE sort_values(_, _)
sort_values(rows, on) ==
    IF rows = <<>> THEN <<>>
    ELSE InsertByKey(sort_values(SubSeq(rows, 1, Len(rows) - 1), on), rows[Len(rows)], on)

\* The rows of right that merge_asof may pair with left row l: same `by` group.
SameGroup(l, r, by) == by = None \/ r[Val(by)] = l[Val(by)]

\* direction="forward": the first right row (0 if none) with key >= the left key.
ForwardMatch(l, right_rows, on, by) ==
    LET cand == {j \in DOMAIN right_rows :
                    right_rows[j][on] >= l[on] /\ SameGroup(l, right_rows[j], by)}
    IN  IF cand = {} THEN 0 ELSE Minimum(cand)

\* A join that takes the last right row of the group whatever its key.
UnboundedMatch(l, right_rows, on, by) ==
    LET cand == {j \in DOMAIN right_rows : SameGroup(l, right_rows[j], by)}
    IN  IF cand = {} THEN 0 ELSE Max(cand)

\* A join that does not accept an exact match of the keys.
StrictBackwardMatch(l, right_rows, on, by) ==
    LET cand == {j \in DOMAIN right_rows :
                    right_rows[j][on] < l[on] /\ SameGroup(l, right_rows[j], by)}
    IN  IF cand = {} THEN 0 ELSE Max(cand)

\* direction="backward": the last right row (0 if none) with key <= the left key.
BackwardMatch(l, right_rows, on, by) ==
    LET cand == {j \in DOMAIN right_rows :
                    right_rows[j][on] <= l[on] /\ SameGroup(l, right_rows[j], by)}
    IN  IF cand = {} THEN 0 ELSE Max(cand)

\* pd.Timedelta(tolerance) of a string such as "10min" or "2s": a count and a
\* unit, in seconds.
Timedelta(tolerance) ==
    IF tolerance.unit = "min" THEN tolerance.count * 60 ELSE tolerance.count

\* A tolerance that discards a match exactly as old as the tolerance.
StrictWithinTolerance(l, r, on, tolerance) ==
    tolerance = None \/
        (IF l[on] >= r[on] THEN l[on] - r[on] ELSE r[on] - l[on])
            < Timedelta(Val(tolerance))

\* tolerance: a match farther than the tolerance is discarded.
WithinTolerance(l, r, on, tolerance) ==
    tolerance = None \/
        (IF l[on] >= r[on] THEN l[on] - r[on] ELSE r[on] - l[on])
            <= Timedelta(Val(tolerance))

\* The index of the right row merged onto left row l, 0 when there is none.
MatchIndex(l, right_rows, on, by, tolerance, direction) ==
    LET found == IF direction = "backward"
                 THEN BackwardMatch(l, right_rows, on, by)
                 ELSE ForwardMatch(l, right_rows, on, by)
    IN  IF found # 0 /\ WithinTolerance(l, right_rows[found], on, tolerance)
        THEN found ELSE 0

\* The name pandas gives one side's copy of a column that both frames have.
Suffixed(c, suffix) == c \o suffix

\* pd.merge_asof(left, right, on=, by=, tolerance=, direction=) on sorted
\* frames: a column of both frames that is not a key comes out twice, as
\* <name>_x with the left cells and <name>_y with the right cells.
merge_asof(left, right, on, by, tolerance, direction) ==
    LET keys == {on} \cup (IF by = None THEN {} ELSE {Val(by)})
        overlap == (left.columns \cap right.columns) \ keys
        left_only == left.columns \ overlap
        right_only == right.columns \ (keys \cup overlap)
        columns == left_only \cup right_only
                       \cup {Suffixed(c, "_x") : c \in overlap}
                       \cup {Suffixed(c, "_y") : c \in overlap}
        merged(l) ==
            LET j == MatchIndex(l, right.rows, on, by, tolerance, direction)
                right_cell(c) == IF j = 0 THEN NaN ELSE right.rows[j][c]
                base(c) == CHOOSE b \in overlap :
                               c \in {Suffixed(b, "_x"), Suffixed(b, "_y")}
            IN  [c \in columns |->
                    IF c \in left_only THEN l[c]
                    ELSE IF c \in right_only THEN right_cell(c)
                    ELSE IF c = Suffixed(base(c), "_x") THEN l[base(c)]
                    ELSE right_cell(base(c))]
    IN  Table(columns, [i \in DOMAIN left.rows |-> merged(left.rows[i])])

Ok(df) == [error |-> "none", columns |-> df.columns, rows |-> df.rows]

Raised(error) == [error |-> error, columns |-> {}, rows |-> <<>>]

\* A frame whose timestamp column was given a dtype other than
\* datetime64[ns]; a frame that names no dtype has a datetime64[ns] column.
astype(df, dtype) == [columns |-> df.columns, rows |-> df.rows, dtype |-> dtype]

\* pd.api.types.is_datetime64_any_dtype(df[on])
is_datetime64_any_dtype(df, on) ==
    "dtype" \notin DOMAIN df \/ df.dtype = "datetime64[ns]"

\* A join that drops no auxiliary column.
NoSharedCols(left, right, keep_in_right) == {}

\* The columns of both frames other than the merge key and the by-columns.
shared_cols(left, right, keep_in_right) ==
    (left.columns \cap right.columns) \ keep_in_right

asof_join(left, right, on, by, tolerance, direction) ==
    LET left_sorted == Table(left.columns, sort_values(left.rows, on))
        right_sorted == Table(right.columns, sort_values(right.rows, on))
        by_cols == IF by = None THEN {} ELSE {Val(by)}
        keep_in_right == {on} \cup by_cols
        right_kept == DropColumns(right_sorted, shared_cols(left, right, keep_in_right))
    IN  IF ~is_datetime64_any_dtype(left, on) \/ ~is_datetime64_any_dtype(right, on)
        THEN Raised("ValueError")
        ELSE IF ~(by_cols \subseteq left.columns /\ by_cols \subseteq right.columns)
        THEN Raised("KeyError")
        ELSE Ok(merge_asof(left_sorted, right_kept, on, by, tolerance, direction))

(***************************************************************************)
(* asof_join.py: asof_join_by_session.                                     *)
(***************************************************************************)
\* left[session_col].unique(): the keys in order of first appearance.
RECURSIVE Unique(_, _)
Unique(rows, col) ==
    IF rows = <<>> THEN <<>>
    ELSE LET front == Unique(SubSeq(rows, 1, Len(rows) - 1), col)
             key == rows[Len(rows)][col]
         IN  IF key \in SeqRange(front) THEN front ELSE Append(front, key)

\* A per-session slice that ignores the session key.
RightUnfiltered(right, session_col, session_key) == right

\* right[right[session_col] == session_key] if session_col in right.columns
\* else right
RightOfSession(right, session_col, session_key) ==
    IF session_col \in right.columns THEN FilterEq(right, session_col, session_key)
    ELSE right

\* The frame appended for one session of the grid, or the error raised by
\* the join of that session.
SessionFrame(left, right, on, session_col, tolerance, session_key) ==
    LET left_s == FilterEq(left, session_col, session_key)
        right_s == RightOfSession(right, session_col, session_key)
    IN  IF right_s.rows = <<>> \/ right_s.columns = {}
        THEN Ok(left_s)
        ELSE asof_join(left_s, right_s, on, None, tolerance, "backward")

\* pd.concat(frames, ignore_index=True): the union of the columns, NaN in
\* the cells of a column a frame does not have.
RECURSIVE ConcatRows(_, _)
ConcatRows(frames, columns) ==
    IF frames = <<>> THEN <<>>
    ELSE LET f == frames[Len(frames)]
             filled == [i \in DOMAIN f.rows |->
                           [c \in columns |->
                               IF c \in f.columns THEN f.rows[i][c] ELSE NaN]]
         IN  ConcatRows(SubSeq(frames, 1, Len(frames) - 1), columns) \o filled

concat(frames) ==
    LET columns == UNION {frames[k].columns : k \in DOMAIN frames}
    IN  Table(columns, ConcatRows(frames, columns))

\* A join of the whole grid at once, without the split by session.
AsofJoinWholeGrid(left, right, on, session_col, tolerance) ==
    asof_join(left, right, on, None, tolerance, "backward")

asof_join_by_session(left, right, on, session_col, tolerance) ==
    LET sessions == Unique(left.rows, session_col)
        frames == [k \in DOMAIN sessions |->
                      SessionFrame(left, right, on, session_col, tolerance, sessions[k])]
        failed == {k \in DOMAIN frames : frames[k].error # "none"}
    IN  IF failed # {} THEN Raised(frames[Minimum(failed)].error)
        ELSE IF frames = <<>> THEN Ok(Table({}, <<>>))
        ELSE Ok(concat(frames))

(***************************************************************************)
(* Inputs of the as-of join: a grid of distinct (session, timestamp)       *)
(* points in (session, timestamp) order and an auxiliary table, with or    *)
(* without the session column, in (session, timestamp) order.  The join    *)
(* never reads the value column, so the j-th auxiliary row carries the     *)
(* value j and a joined value names the row it was taken from.             *)
(***************************************************************************)
Sessions == {1, 2}

GridColumns == {"timestamp", "session_key"}

KeyLess(a, b) == a[2] < b[2] \/ (a[2] = b[2] /\ a[1] < b[1])

KeySeqs(n) == SeqsUpTo((0..MaxJoinT) \X Sessions, n)

LeftInputs ==
    {Table(GridColumns,
           [i \in DOMAIN k |-> [timestamp |-> k[i][1], session_key |-> k[i][2]]]) :
        k \in {q \in KeySeqs(MaxLeft) : \A i \in 1..(Len(q) - 1) : KeyLess(q[i], q[i + 1])}}

RightInputs ==
    {Table({"timestamp", "session_key", "value"},
           [i \in DOMAIN k |->
               [timestamp |-> k[i][1], session_key |-> k[i][2], value |-> F(i)]]) :
        k \in {q \in KeySeqs(MaxRight) :
                  \A i \in 1..(Len(q) - 1) : ~KeyLess(q[i + 1], q[i])}}
    \cup
    {Table({"timestamp", "value"},
           [i \in DOMAIN k |-> [timestamp |-> k[i], value |-> F(i)]]) :
        k \in {q \in SeqsUpTo(0..MaxJoinT, MaxRight) : IsAscending(q)}}

Seconds(n) == [count |-> n, unit |-> "s"]

Minutes(n) == [count |-> n, unit |-> "min"]

ToleranceArgs == {None} \cup {Some(Seconds(n)) : n \in 0..MaxTol}

\* tests/test_asof_join.py: auxiliary rows at minutes 0, 3, 7 with values
\* 10, 20, 30 and a 0..9 minute grid of one session.
ScenarioLeft == Table(GridColumns, TimelineOf(GridTimes(0, 60, 10), 1))

ScenarioRight ==
    Table({"timestamp", "session_key", "value"},
          <<[timestamp |-> 0, session_key |-> 1, value |-> F(10)],
            [timestamp |-> 3 * 60, session_key |-> 1, value |-> F(20)],
            [timestamp |-> 7 * 60, session_key |-> 1, value |-> F(30)]>>)

AsofJoinArgs(l, r, b, t) ==
    [left |-> l, right |-> r, on |-> "timestamp", by |-> b, tolerance |-> t,
     direction |-> "backward"]

AsofJoinBySessionArgs(l, r, t) ==
    [left |-> l, right |-> r, on |-> "timestamp", session_col |-> "session_key",
     tolerance |-> t]

\* The dtype of a timestamp column that was not converted: epoch seconds
\* kept as integers.
OtherDtypes == {"int64"}

\* The frame as it is and with its timestamp column of another dtype.
Typed(df) == {df} \cup {astype(df, d) : d \in OtherDtypes}

InitAsof ==
    /\ pc = "call"
    /\ ret = None
    /\ \/ /\ fn = "asof_join"
          /\ \/ \E l \in LeftInputs, r \in RightInputs,
                   b \in {None, Some("session_key")}, t \in ToleranceArgs :
                    args = AsofJoinArgs(l, r, b, t)
             \/ \E t \in {None, Some(Minutes(2))} :
                    args = AsofJoinArgs(ScenarioLeft, ScenarioRight, None, t)
             \/ \E l \in LeftInputs, r \in RightInputs :
                    \E tl \in Typed(l), tr \in Typed(r) :
                        /\ <<tl, tr>> # <<l, r>>
                        /\ args = AsofJoinArgs(tl, tr, None, None)
       \/ /\ fn = "asof_join_by_session"
          /\ \/ \E l \in LeftInputs, r \in RightInputs, t \in ToleranceArgs :
                    args = AsofJoinBySessionArgs(l, r, t)
             \/ \E l \in LeftInputs, r \in RightInputs :
                    \E tl \in Typed(l), tr \in Typed(r) :
                        /\ <<tl, tr>> # <<l, r>>
                        /\ args = AsofJoinBySessionArgs(tl, tr, None)

AsofJoin ==
    /\ pc = "call"
    /\ fn = "asof_join"
    /\ ret' = asof_join(args.left, args.right, args.on, args.by, args.tolerance,
                        args.direction)
    /\ pc' = "return"
    /\ UNCHANGED <<fn, args>>

AsofJoinBySession ==
    /\ pc = "call"
    /\ fn = "asof_join_by_session"
    /\ ret' = asof_join_by_session(args.left, args.right, args.on, args.session_col,
                                   args.tolerance)
    /\ pc' = "return"
    /\ UNCHANGED <<fn, args>>

NextAsof == AsofJoin \/ AsofJoinBySession

SpecAsof == InitAsof /\ [][NextAsof]_vars

(***************************************************************************)
(* Properties of the as-of join.                                           *)
(***************************************************************************)
ReturnedTable(name) == Returned(name) /\ ret.error = "none"

JoinReturned == ReturnedTable("asof_join") \/ ReturnedTable("asof_join_by_session")

\* The auxiliary cell of a result row: null when the result has no such column.
AuxCell(row, c) == IF c \in DOMAIN row THEN row[c] ELSE NaN

\* The auxiliary rows at or before t.
AtOrBefore(right, t) == {j \in DOMAIN right.rows : right.rows[j].timestamp <= t}

\* The auxiliary rows with the greatest timestamp that is <= t.
LatestAtOrBefore(right, t) ==
    {j \in AtOrBefore(right, t) :
        \A k \in AtOrBefore(right, t) : right.rows[k].timestamp <= right.rows[j].timestamp}

SeqOfValues(rows) == [i \in DOMAIN rows |-> rows[i].value]

\* C4: asof_join in its default backward direction, without partition key and
\* tolerance, returns one row per grid row carrying the value of an auxiliary
\* row with the greatest timestamp <= the grid timestamp (null if there is
\* none); rows at minutes 0, 3, 7 with values 10, 20, 30 joined onto the
\* 0..9 minute grid give 10,10,10,20,20,20,20,30,30,30.
C4_AsofTakesLatestAtOrBefore ==
    (ReturnedTable("asof_join") /\ args.by = None /\ args.tolerance = None
        /\ args.direction = "backward") =>
        /\ Len(ret.rows) = Len(args.left.rows)
        /\ \A i \in DOMAIN ret.rows :
              LET x == ret.rows[i]
                  latest == LatestAtOrBefore(args.right, x.timestamp)
              IN  /\ "value" \in DOMAIN x
                  /\ IF latest = {} THEN x.value = NaN
                     ELSE \E j \in latest : x.value = args.right.rows[j].value
        /\ (args.left = ScenarioLeft /\ args.right = ScenarioRight) =>
              SeqOfValues(ret.rows) =
                  <<F(10), F(10), F(10), F(20), F(20), F(20), F(20), F(30), F(30), F(30)>>

\* A join in which one grid row is earlier than every auxiliary row and
\* another takes the row on its own timestamp although a later one exists.
C4_Witness ==
    /\ ReturnedTable("asof_join")
    /\ args.by = None /\ args.tolerance = None
    /\ \E i \in DOMAIN ret.rows :
          /\ AtOrBefore(args.right, ret.rows[i].timestamp) = {}
          /\ ret.rows[i].value = NaN
    /\ \E i \in DOMAIN ret.rows : \E j, k \in DOMAIN args.right.rows :
          /\ args.right.rows[j].timestamp = ret.rows[i].timestamp
          /\ args.right.rows[k].timestamp > ret.rows[i].timestamp
          /\ ret.rows[i].value = args.right.rows[j].value

SessionsWithoutAux ==
    {s \in {args.left.rows[i].session_key : i \in DOMAIN args.left.rows} :
        \A j \in DOMAIN args.right.rows : args.right.rows[j].session_key # s}

\* C6: asof_join_by_session gives every grid row of a session that has no
\* auxiliary row null in every auxiliary column, whatever rows the auxiliary
\* table holds for other sessions.
C6_SessionWithoutAuxGetsNull ==
    (ReturnedTable("asof_join_by_session") /\ "session_key" \in args.right.columns) =>
        \A i \in DOMAIN ret.rows :
            ret.rows[i].session_key \in SessionsWithoutAux =>
                \A c \in ret.columns \ args.left.columns : ret.rows[i][c] = NaN

\* A session without auxiliary rows next to a session whose grid row took a
\* value, the auxiliary row of the other session being early enough to match.
C6_Witness ==
    /\ ReturnedTable("asof_join_by_session")
    /\ "session_key" \in args.right.columns
    /\ \E i, k \in DOMAIN ret.rows :
          /\ ret.rows[i].session_key \in SessionsWithoutAux
          /\ "value" \in ret.columns
          /\ ret.rows[i].value = NaN
          /\ ret.rows[k].value # NaN
          /\ \E j \in DOMAIN args.right.rows :
                args.right.rows[j].timestamp <= ret.rows[i].timestamp

\* C7: the joined values of a grid row are taken from auxiliary rows of the
\* row's own session only, also when asof_join is called without a partition
\* key on tables of several sessions.
C7_NoCrossSessionValue ==
    (JoinReturned /\ "session_key" \in args.right.columns) =>
        \A i \in DOMAIN ret.rows :
            AuxCell(ret.rows[i], "value") # NaN =>
                \E j \in DOMAIN args.right.rows :
                    /\ args.right.rows[j].value = ret.rows[i].value
                    /\ args.right.rows[j].session_key = ret.rows[i].session_key

\* C20: asof_join with a tolerance gives a grid row null in the auxiliary
\* column when the most recent auxiliary row at or before it is older than
\* the tolerance, and the value of that row when its age is at most the
\* tolerance; with a tolerance of 2 minutes the rows at minutes 0, 3, 7 give
\* the 0..9 minute grid 10,10,10,20,20,20,null,30,30,30.
C20_ToleranceDiscardsOlderMatch ==
    (ReturnedTable("asof_join") /\ args.by = None /\ args.tolerance # None
        /\ args.direction = "backward") =>
        /\ \A i \in DOMAIN ret.rows :
              LET x == ret.rows[i]
                  latest == LatestAtOrBefore(args.right, x.timestamp)
              IN  IF latest = {} THEN x.value = NaN
                  ELSE \E j \in latest :
                          x.value =
                              IF x.timestamp - args.right.rows[j].timestamp
                                    > Timedelta(Val(args.tolerance))
                              THEN NaN ELSE args.right.rows[j].value
        /\ (args.left = ScenarioLeft /\ args.right = ScenarioRight
              /\ args.tolerance = Some(Minutes(2))) =>
              SeqOfValues(ret.rows) =
                  <<F(10), F(10), F(10), F(20), F(20), F(20), NaN, F(30), F(30), F(30)>>

\* A join in which one grid row keeps a match exactly as old as the
\* tolerance and another loses a match that is older.
C20_Witness ==
    /\ ReturnedTable("asof_join")
    /\ args.by = None /\ args.tolerance # None
    /\ Timedelta(Val(args.tolerance)) > 0
    /\ \E i, k \in DOMAIN ret.rows :
          /\ \E j \in LatestAtOrBefore(args.right, ret.rows[i].timestamp) :
                /\ ret.rows[i].timestamp - args.right.rows[j].timestamp
                       = Timedelta(Val(args.tolerance))
                /\ ret.rows[i].value = args.right.rows[j].value
          /\ \E j \in LatestAtOrBefore(args.right, ret.rows[k].timestamp) :
                ret.rows[k].timestamp - args.right.rows[j].timestamp
                    > Timedelta(Val(args.tolerance))
          /\ ret.rows[k].value = NaN

(***************************************************************************)
(* rolling_utils.py: rolling_count.                                        *)
(***************************************************************************)
NaT == None

\* series.dropna()
dropna(series) == SelectSeq(series, LAMBDA x : x # NaT)

\* A window closed on the left: [t - window, t].
InClosedWindow(s, t, window_seconds) == s >= t - window_seconds /\ s <= t

\* mask = (event_arr > lo) & (event_arr <= t), lo = t - window
InWindow(s, t, window_seconds) == s > t - window_seconds /\ s <= t

\* The positions of event_arr selected by the mask at query timestamp t.
Mask(event_arr, t, window_seconds) ==
    {j \in DOMAIN event_arr : InWindow(Val(event_arr[j]), t, window_seconds)}

rolling_count(timeline_ts, event_ts, window_seconds) ==
    LET event_arr == dropna(event_ts)
    IN  [i \in DOMAIN timeline_ts |->
            Cardinality(Mask(event_arr, timeline_ts[i], window_seconds))]

(***************************************************************************)
(* rolling_utils.py: rolling_agg.                                          *)
(***************************************************************************)
RECURSIVE GCD(_, _)
GCD(a, b) == IF b = 0 THEN a ELSE GCD(b, a % b)

\* The float num/den, den > 0, in lowest terms.
Frac(num, den) ==
    LET g == GCD(IF num < 0 THEN -num ELSE num, den)
    IN  [num |-> num \div g, den |-> den \div g, root |-> FALSE]

IsSquare(n) == \E r \in 0..n : r * r = n

Sqrt(n) == CHOOSE r \in 0..n : r * r = n

\* The float sqrt(num/den), num >= 0, den > 0.
Root(num, den) ==
    LET f == Frac(num, den)
    IN  IF IsSquare(f.num) /\ IsSquare(f.den)
        THEN [num |-> Sqrt(f.num), den |-> Sqrt(f.den), root |-> FALSE]
        ELSE [num |-> f.num, den |-> f.den, root |-> TRUE]

RECURSIVE SumOf(_)
SumOf(xs) == IF xs = <<>> THEN 0 ELSE xs[1] + SumOf(Tail(xs))

\* The integers of the non-NaN cells of a sequence of value cells.
Numbers(cells) ==
    LET valid == SelectSeq(cells, LAMBDA x : x # NaN)
    IN  [i \in DOMAIN valid |-> valid[i].num]

\* np.nanmean, np.nanmax, np.nanmin, np.nanstd, np.nansum
nanmean(cells) ==
    LET xs == Numbers(cells)
    IN  IF xs = <<>> THEN NaN ELSE Frac(SumOf(xs), Len(xs))

nanmax(cells) ==
    LET xs == Numbers(cells)
    IN  IF xs = <<>> THEN NaN ELSE F(Max(SeqRange(xs)))

nanmin(cells) ==
    LET xs == Numbers(cells)
    IN  IF xs = <<>> THEN NaN ELSE F(Minimum(SeqRange(xs)))

nanstd(cells) ==
    LET xs == Numbers(cells)
        n == Len(xs)
        squares == [i \in DOMAIN xs |-> xs[i] * xs[i]]
    IN  IF xs = <<>> THEN NaN
        ELSE Root(n * SumOf(squares) - SumOf(xs) * SumOf(xs), n * n)

nansum(cells) == F(SumOf(Numbers(cells)))

agg_map == {"mean", "max", "min", "std", "sum"}

Reduce(agg_fn, cells) ==
    CASE agg_fn = "mean" -> nanmean(cells)
      [] agg_fn = "max" -> nanmax(cells)
      [] agg_fn = "min" -> nanmin(cells)
      [] agg_fn = "std" -> nanstd(cells)
      [] agg_fn = "sum" -> nansum(cells)

\* values[mask]: the cells at the positions of the mask, in order.
Take(values, mask) ==
    LET idx == SelectSeq([j \in DOMAIN values |-> j], LAMBDA j : j \in mask)
    IN  [k \in DOMAIN idx |-> values[idx[k]]]

\* An aggregate that reduces an empty window as well.
CellAlwaysReduced(values, mask, agg_fn) == Reduce(agg_fn, Take(values, mask))

\* result[i] stays NaN unless mask.any()
Cell(values, mask, agg_fn) ==
    IF mask # {} THEN Reduce(agg_fn, Take(values, mask)) ELSE NaN

rolling_agg(timeline_ts, event_df, ts_col, value_col, window_seconds, agg_fn) ==
    LET event_ts_arr == dropna([j \in DOMAIN event_df |-> event_df[j][ts_col]])
        values == [j \in DOMAIN event_df |-> event_df[j][value_col]]
        mask(t) == Mask(event_ts_arr, t, window_seconds)
    IN  IF agg_fn \notin agg_map THEN [error |-> "ValueError", result |-> <<>>]
        \* a boolean index shorter than the indexed array does not index it
        ELSE IF Len(event_ts_arr) # Len(values)
                /\ \E i \in DOMAIN timeline_ts : mask(timeline_ts[i]) # {}
        THEN [error |-> "IndexError", result |-> <<>>]
        ELSE [error |-> "none",
              result |-> [i \in DOMAIN timeline_ts |->
                             Cell(values, mask(timeline_ts[i]), agg_fn)]]

(***************************************************************************)
(* rolling_utils.py: rolling_unique_count.                                 *)
(***************************************************************************)
\* len(set(cat_values[mask]))
UniqueCount(cat_values, mask) == Cardinality({cat_values[j] : j \in mask})

\* cat_values[mask] is evaluated for every query timestamp, also under an
\* all-False mask.
rolling_unique_count(timeline_ts, event_df, ts_col, value_col, window_seconds) ==
    LET event_ts_arr == dropna([j \in DOMAIN event_df |-> event_df[j][ts_col]])
        cat_values == [j \in DOMAIN event_df |-> event_df[j][value_col]]
        mask(t) == Mask(event_ts_arr, t, window_seconds)
    IN  IF Len(event_ts_arr) # Len(cat_values) /\ timeline_ts # <<>>
        THEN [error |-> "IndexError", result |-> <<>>]
        ELSE [error |-> "none",
              result |-> [i \in DOMAIN timeline_ts |->
                             UniqueCount(cat_values, mask(timeline_ts[i]))]]

(***************************************************************************)
(* Inputs of the rolling helpers.                                          *)
(***************************************************************************)
RollTimes == {NaT} \cup {Some(t) : t \in 0..MaxRollT}

ValueCells == {F(1), F(3), NaN}

WindowArgs == 1..MaxWindow

\* Query timestamps: a grid of consecutive seconds starting at 0 or 1.
QueryInputs == {GridTimes(s, 1, n) : s \in 0..1, n \in 0..MaxGrid}

EventTsInputs == SeqsUpTo(RollTimes, MaxRows)

EventDfInputs == SeqsUpTo([ts : RollTimes, val : ValueCells], MaxRows)

\* A categorical value column: two category codes, none missing.
CategoryCells == {F(1), F(3)}

CategoryDfInputs == SeqsUpTo([ts : RollTimes, val : CategoryCells], MaxRows)

RollingCountArgs(g, e, w) == [timeline_ts |-> g, event_ts |-> e, window_seconds |-> w]

RollingAggArgs(g, e, w, a) ==
    [timeline_ts |-> g, event_df |-> e, ts_col |-> "ts", value_col |-> "val",
     window_seconds |-> w, agg_fn |-> a]

RollingUniqueCountArgs(g, e, w) ==
    [timeline_ts |-> g, event_df |-> e, ts_col |-> "ts", value_col |-> "val",
     window_seconds |-> w]

\* tests/test_rolling_windows.py test_mean_aggregation: values 10..50 at
\* minutes 0..4, one query at minute 5, window 300 s.
ScenarioEvents ==
    [j \in 1..5 |-> [ts |-> Some((j - 1) * 60), val |-> F(10 * j)]]

InitRolling ==
    /\ pc = "call"
    /\ ret = None
    /\ \/ /\ fn = "rolling_count"
          /\ \E g \in QueryInputs, e \in EventTsInputs, w \in WindowArgs :
                args = RollingCountArgs(g, e, w)
       \/ /\ fn = "rolling_agg"
          /\ \/ \E g \in QueryInputs, e \in EventDfInputs, w \in WindowArgs,
                   a \in agg_map \cup {"median"} :
                    args = RollingAggArgs(g, e, w, a)
             \/ \E a \in agg_map :
                    args = RollingAggArgs(<<5 * 60>>, ScenarioEvents, 300, a)
       \/ /\ fn = "rolling_unique_count"
          /\ \E g \in QueryInputs, e \in CategoryDfInputs, w \in WindowArgs :
                args = RollingUniqueCountArgs(g, e, w)

RollingCount ==
    /\ pc = "call"
    /\ fn = "rolling_count"
    /\ ret' = rolling_count(args.timeline_ts, args.event_ts, args.window_seconds)
    /\ pc' = "return"
    /\ UNCHANGED <<fn, args>>

RollingAgg ==
    /\ pc = "call"
    /\ fn = "rolling_agg"
    /\ ret' = rolling_agg(args.timeline_ts, args.event_df, args.ts_col, args.value_col,
                          args.window_seconds, args.agg_fn)
    /\ pc' = "return"
    /\ UNCHANGED <<fn, args>>

RollingUniqueCount ==
    /\ pc = "call"
    /\ fn = "rolling_unique_count"
    /\ ret' = rolling_unique_count(args.timeline_ts, args.event_df, args.ts_col,
                                   args.value_col, args.window_seconds)
    /\ pc' = "return"
    /\ UNCHANGED <<fn, args>>

NextRolling == RollingCount \/ RollingAgg \/ RollingUniqueCount

SpecRolling == InitRolling /\ [][NextRolling]_vars

(***************************************************************************)
(* Properties of the rolling helpers.                                      *)
(***************************************************************************)
\* The positions of a series of optional timestamps that hold a timestamp s
\* with lo < s <= hi.
Between(series, lo, hi) ==
    {j \in DOMAIN series : series[j] # NaT /\ lo < Val(series[j]) /\ Val(series[j]) <= hi}

\* C8: rolling_count returns for each query timestamp t the number of source
\* timestamps s with t - window < s <= t: a source timestamp at t - window is
\* not counted and one at t is.
C8_CountLeftOpenRightClosed ==
    Returned("rolling_count") =>
        /\ DOMAIN ret = DOMAIN args.timeline_ts
        /\ \A i \in DOMAIN ret :
              LET t == args.timeline_ts[i]
                  w == args.window_seconds
                  at(x) == {j \in DOMAIN args.event_ts : args.event_ts[j] = Some(x)}
              IN  /\ ret[i] = Cardinality(Between(args.event_ts, t - w, t))
                  /\ ret[i] >= Cardinality(at(t))
                  /\ ret[i] <= Len(dropna(args.event_ts)) - Cardinality(at(t - w))

\* A query with one source timestamp exactly at t - window and one exactly
\* at t: the count is 1.
C8_Witness ==
    /\ Returned("rolling_count")
    /\ \E i \in DOMAIN ret :
          LET t == args.timeline_ts[i]
          IN  /\ Some(t) \in SeqRange(args.event_ts)
              /\ Some(t - args.window_seconds) \in SeqRange(args.event_ts)
              /\ Len(args.event_ts) = 2
              /\ ret[i] = 1

\* The value cells of the source rows whose own timestamp lies in (lo, hi].
ValuesBetween(event_df, lo, hi) ==
    LET rows == SelectSeq(event_df,
                    LAMBDA r : r.ts # NaT /\ lo < Val(r.ts) /\ Val(r.ts) <= hi)
    IN  [k \in DOMAIN rows |-> rows[k].val]

IsScenarioAgg == args.event_df = ScenarioEvents /\ args.agg_fn = "mean"

\* C9: rolling_agg returns, for each query timestamp t with a non-empty
\* window, the named reducer applied to exactly the values of the source rows
\* whose timestamp s satisfies t - window < s <= t; window 300 s at minute 5
\* over 10..50 at minutes 0..4 gives mean 35.
C9_AggOverRowsInWindow ==
    (Returned("rolling_agg") /\ args.agg_fn \in agg_map) =>
        /\ ret.error = "none"
        /\ \A i \in DOMAIN args.timeline_ts :
              LET t == args.timeline_ts[i]
                  cells == ValuesBetween(args.event_df, t - args.window_seconds, t)
              IN  cells # <<>> => ret.result[i] = Reduce(args.agg_fn, cells)
        /\ IsScenarioAgg => ret.result = <<F(35)>>

VisibleTs(event_ts, t, window_seconds) ==
    SelectSeq(event_ts, LAMBDA x : x = NaT \/ InWindow(Val(x), t, window_seconds))

VisibleRows(event_df, t, window_seconds) ==
    SelectSeq(event_df, LAMBDA r : r.ts = NaT \/ InWindow(Val(r.ts), t, window_seconds))

\* The outcome of a call at query position i: the error, and the entry when
\* the call returned.
OutcomeAt(out, i) ==
    IF out.error = "none" THEN [error |-> "none", cell |-> Some(out.result[i])]
    ELSE [error |-> out.error, cell |-> None]

\* C11: no lookahead of the rolling helpers: for rolling_count, rolling_agg
\* and rolling_unique_count the outcome at every query timestamp t is the
\* outcome of the same call on the source without the rows whose timestamp
\* is > t or <= t - window, so adding, removing or altering such rows does
\* not change it.
C11_RollingNoLookahead ==
    /\ Returned("rolling_count") =>
          \A i \in DOMAIN args.timeline_ts :
              ret[i] = rolling_count(args.timeline_ts,
                                     VisibleTs(args.event_ts, args.timeline_ts[i],
                                               args.window_seconds),
                                     args.window_seconds)[i]
    /\ Returned("rolling_agg") =>
          \A i \in DOMAIN args.timeline_ts :
              OutcomeAt(ret, i) =
                  OutcomeAt(rolling_agg(args.timeline_ts,
                                        VisibleRows(args.event_df, args.timeline_ts[i],
                                                    args.window_seconds),
                                        args.ts_col, args.value_col,
                                        args.window_seconds, args.agg_fn), i)
    /\ Returned("rolling_unique_count") =>
          \A i \in DOMAIN args.timeline_ts :
              OutcomeAt(ret, i) =
                  OutcomeAt(rolling_unique_count(args.timeline_ts,
                                                 VisibleRows(args.event_df,
                                                             args.timeline_ts[i],
                                                             args.window_seconds),
                                                 args.ts_col, args.value_col,
                                                 args.window_seconds), i)

(***************************************************************************)
(* time_utils.py: timestamp strings.  A string is a record: form "aware"   *)
(* (ISO 8601 with a UTC offset: wall clock and offset in seconds), "naive" *)
(* (ISO 8601 without offset), "text" (not a timestamp) or "empty".         *)
(***************************************************************************)
Aware(clock, offset) == [form |-> "aware", clock |-> clock, offset |-> offset]

Naive(clock) == [form |-> "naive", clock |-> clock, offset |-> 0]

Text == [form |-> "text", clock |-> 0, offset |-> 0]

Empty == [form |-> "empty", clock |-> 0, offset |-> 0]

\* to_utc: a naive datetime is taken as UTC, an aware one is converted.
to_utc(dt) == IF dt.form = "naive" THEN dt.clock ELSE dt.clock - dt.offset

\* parse_openf1_timestamp: None for a falsy argument and for a string
\* datetime.fromisoformat rejects.
parse_openf1_timestamp(ts) ==
    IF ts = None \/ Val(ts).form = "empty" THEN None
    ELSE IF Val(ts).form \in {"aware", "naive"} THEN Some(to_utc(Val(ts)))
    ELSE None

\* pd.to_datetime(x, utc=True, errors="coerce") of one element.
to_datetime(x) ==
    IF x # None /\ Val(x).form \in {"aware", "naive"} THEN Some(to_utc(Val(x))) ELSE NaT

\* parse_timestamp_series
parse_timestamp_series(series) == [i \in DOMAIN series |-> to_datetime(series[i])]

(***************************************************************************)
(* label_detector.py: _is_sc_start.  A message is a sequence of words; a   *)
(* multi-word keyword of the patterns is one word of the sequence.         *)
(***************************************************************************)
SC_CATEGORIES == {"SafetyCar", "Vsc", "VirtualSafetyCar"}

SC_FLAGS == {"SC", "VSC", "SAFETY CAR", "VIRTUAL SAFETY CAR"}

\* re.IGNORECASE: the case folding of the words of a message.
Upper(word) ==
    CASE word = "safety car" -> "SAFETY CAR"
      [] word = "deployed" -> "DEPLOYED"
      [] word = "ending" -> "ENDING"
      [] OTHER -> word

\* END_KEYWORDS.search(message)
END_KEYWORDS(message) ==
    \E i \in DOMAIN message :
        Upper(message[i]) \in {"ENDING", "WITHDRAWN", "IN THIS LAP", "RESUME", "CLEAR"}

\* SC_KEYWORDS.search(message): a car keyword followed, anywhere later in the
\* message, by a deployment keyword.
SC_KEYWORDS(message) ==
    \E i, j \in DOMAIN message :
        /\ i < j
        /\ Upper(message[i]) \in {"SAFETY CAR", "VIRTUAL SAFETY CAR", "VSC"}
        /\ Upper(message[j]) \in {"DEPLOYED", "OUT", "PERIOD"}

\* str(row.get(field, "") or "")
StrOf(cell) == IF cell = None THEN "" ELSE Val(cell)

\* str(row.get("message", "") or "")
MessageOf(cell) == IF cell = None THEN <<>> ELSE Val(cell)

\* A classifier that consults the structured fields before the end pattern.
IsScStartStructuredFirst(row) ==
    LET category == StrOf(row.category)
        flag == StrOf(row.flag)
        message == MessageOf(row.message)
    IN  IF category \in SC_CATEGORIES \/ flag \in SC_FLAGS THEN TRUE
        ELSE IF END_KEYWORDS(message) THEN FALSE
        ELSE IF SC_KEYWORDS(message) THEN TRUE
        ELSE FALSE

_is_sc_start(row) ==
    LET category == StrOf(row.category)
        flag == StrOf(row.flag)
        message == MessageOf(row.message)
    IN  IF END_KEYWORDS(message) THEN FALSE
        ELSE IF category \in SC_CATEGORIES \/ flag \in SC_FLAGS THEN TRUE
        ELSE IF SC_KEYWORDS(message) THEN TRUE
        ELSE FALSE

(***************************************************************************)
(* label_detector.py: detect_sc_events.                                    *)
(***************************************************************************)
merge_window_seconds == 300

\* The order of sort_values on a datetime column: NaT last.
DateLeq(a, b) == b = NaT \/ (a # NaT /\ Val(a) <= Val(b))

RECURSIVE InsertByDate(_, _)
InsertByDate(sorted, row) ==
    IF sorted = <<>> THEN <<row>>
    ELSE IF DateLeq(sorted[Len(sorted)].date, row.date) THEN Append(sorted, row)
    ELSE Append(InsertByDate(SubSeq(sorted, 1, Len(sorted) - 1), row),
                sorted[Len(sorted)])

\* df.sort_values("date").reset_index(drop=True); rows of equal date are
\* candidates of the same event in either order.
RECURSIVE SortByDate(_)
SortByDate(rows) ==
    IF rows = <<>> THEN <<>>
    ELSE InsertByDate(SortByDate(SubSeq(rows, 1, Len(rows) - 1)), rows[Len(rows)])

\* A comparison that opens a new event already at a gap equal to the window.
ReachesWindow(ts, last_event_time) ==
    /\ ts # NaT
    /\ last_event_time # NaT
    /\ Val(ts) - Val(last_event_time) >= merge_window_seconds

\* (ts - last_event_time).total_seconds() > merge_window_seconds; the
\* difference with a NaT is NaT, whose total_seconds() is nan.
ExceedsWindow(ts, last_event_time) ==
    /\ ts # NaT
    /\ last_event_time # NaT
    /\ Val(ts) - Val(last_event_time) > merge_window_seconds

\* The loop over sc_rows: the events appended so far and last_event_time
\* (None before the first event).
RECURSIVE GroupEvents(_)
GroupEvents(sc_rows) ==
    IF sc_rows = <<>> THEN [events |-> <<>>, last_event_time |-> None]
    ELSE LET before == GroupEvents(SubSeq(sc_rows, 1, Len(sc_rows) - 1))
             ts == sc_rows[Len(sc_rows)].date
         IN  IF before.last_event_time = None
                    \/ ExceedsWindow(ts, Val(before.last_event_time))
             THEN [events |-> Append(before.events, ts), last_event_time |-> Some(ts)]
             ELSE before

RECURSIVE InsertDate(_, _)
InsertDate(sorted, d) ==
    IF sorted = <<>> THEN <<d>>
    ELSE IF DateLeq(sorted[Len(sorted)], d) THEN Append(sorted, d)
    ELSE Append(InsertDate(SubSeq(sorted, 1, Len(sorted) - 1), d), sorted[Len(sorted)])

\* sorted(events)
RECURSIVE sorted(_)
sorted(events) ==
    IF events = <<>> THEN <<>>
    ELSE InsertDate(sorted(SubSeq(events, 1, Len(events) - 1)), events[Len(events)])

detect_sc_events(race_control_df) ==
    IF race_control_df.rows = <<>> \/ race_control_df.columns = {} THEN <<>>
    ELSE IF "date" \notin race_control_df.columns THEN <<>>
    ELSE LET dates == parse_timestamp_series(
                          [i \in DOMAIN race_control_df.rows |->
                              race_control_df.rows[i].date])
             df == SortByDate([i \in DOMAIN race_control_df.rows |->
                                  [race_control_df.rows[i] EXCEPT !.date = dates[i]]])
             sc_rows == SelectSeq(df, _is_sc_start)
         IN  IF sc_rows = <<>> THEN <<>>
             ELSE sorted(GroupEvents(sc_rows).events)

(***************************************************************************)
(* Inputs of the event detector.                                           *)
(***************************************************************************)
LogColumns == {"date", "category", "flag", "message"}

LogRow(date, category, flag, message) ==
    [date |-> date, category |-> category, flag |-> flag, message |-> message]

MessageWords ==
    {"SAFETY CAR", "VSC", "DEPLOYED", "PERIOD", "ENDING", "CLEAR", "CLEARED", "TRACK",
     "safety car", "ending"}

MessageInputs == {None} \cup {Some(m) : m \in SeqsUpTo(MessageWords, MaxWords)}

CategoryInputs ==
    {None} \cup {Some(c) : c \in SC_CATEGORIES \cup {"", "TrackLimits", "safetycar"}}

FlagInputs == {None} \cup {Some(f) : f \in SC_FLAGS \cup {"", "GREEN"}}

\* tests/test_label_detection.py TestIsScStart: the six rows of the tests.
TestEndingRow ==
    LogRow(None, Some("SafetyCar"), Some("SC"), Some(<<"SAFETY CAR", "ENDING">>))

TestRows ==
    {LogRow(None, Some("SafetyCar"), Some(""), Some(<<"SAFETY CAR", "DEPLOYED">>)),
     LogRow(None, Some("Vsc"), Some("VSC"), Some(<<"VIRTUAL SAFETY CAR", "DEPLOYED">>)),
     TestEndingRow,
     LogRow(None, Some(""), Some(""), Some(<<"TRACK", "CLEAR">>)),
     LogRow(None, Some(""), Some(""), Some(<<"SAFETY CAR", "DEPLOYED">>)),
     LogRow(None, Some("TrackLimits"), Some(""), Some(<<"TRACK", "LIMITS", "REMINDER">>))}

\* Log timestamps: multiples of half the merge window, written with a UTC
\* offset of 0 or 1 hour, and a string that is not a timestamp.
TickSeconds == merge_window_seconds \div 2

LogDates ==
    {Some(Aware(k * TickSeconds + o, o)) : k \in 0..MaxTick, o \in {0, 60 * 60}}
    \cup {Some(Text)}

\* A deployment message and the message that ends the period.
StartRow(date) == LogRow(date, Some("SafetyCar"), Some("SC"), Some(<<"SAFETY CAR", "DEPLOYED">>))

EndRow(date) == LogRow(date, Some("SafetyCar"), Some("SC"), Some(<<"SAFETY CAR", "ENDING">>))

LogRows == {StartRow(d) : d \in LogDates} \cup {EndRow(d) : d \in LogDates}

InitDetect ==
    /\ pc = "call"
    /\ ret = None
    /\ \/ /\ fn = "_is_sc_start"
          /\ \/ \E c \in CategoryInputs, f \in FlagInputs, m \in MessageInputs :
                    args = [row |-> LogRow(None, c, f, m)]
             \/ \E r \in TestRows : args = [row |-> r]
       \/ /\ fn = "detect_sc_events"
          /\ \/ \E rows \in SeqsUpTo(LogRows, MaxLogRows) :
                    args = [race_control_df |-> Table(LogColumns, rows)]
             \/ \E rows \in SeqsUpTo({StartRow(None), EndRow(None)}, MaxLogRows) :
                    args = [race_control_df |->
                               DropColumns(Table(LogColumns, rows), {"date"})]

IsScStart ==
    /\ pc = "call"
    /\ fn = "_is_sc_start"
    /\ ret' = _is_sc_start(args.row)
    /\ pc' = "return"
    /\ UNCHANGED <<fn, args>>

DetectScEvents ==
    /\ pc = "call"
    /\ fn = "detect_sc_events"
    /\ ret' = detect_sc_events(args.race_control_df)
    /\ pc' = "return"
    /\ UNCHANGED <<fn, args>>

NextDetect == IsScStart \/ DetectScEvents

SpecDetect == InitDetect /\ [][NextDetect]_vars

(***************************************************************************)
(* Properties of the event detector.                                       *)
(***************************************************************************)
\* C12: _is_sc_start decides in a fixed priority order: a message matching
\* the end pattern is not a start, even when the category or the flag is in
\* the incident vocabulary; else a category or flag of the vocabulary is a
\* start; else a message matching the deployment pattern is a start; else the
\* row is not a start.
C12_IsScStartPriority ==
    Returned("_is_sc_start") =>
        LET message == MessageOf(args.row.message)
            ending == END_KEYWORDS(message)
            structured == \/ StrOf(args.row.category) \in SC_CATEGORIES
                          \/ StrOf(args.row.flag) \in SC_FLAGS
            deployed == SC_KEYWORDS(message)
        IN  /\ ending => ret = FALSE
            /\ (~ending /\ structured) => ret = TRUE
            /\ (~ending /\ ~structured /\ deployed) => ret = TRUE
            /\ (~ending /\ ~structured /\ ~deployed) => ret = FALSE
            /\ args.row = TestEndingRow => ret = FALSE

\* The row "SAFETY CAR ENDING" with category SafetyCar and flag SC is not a
\* start.
C12_Witness ==
    /\ Returned("_is_sc_start")
    /\ args.row = TestEndingRow
    /\ END_KEYWORDS(MessageOf(args.row.message))
    /\ StrOf(args.row.category) \in SC_CATEGORIES
    /\ ret = FALSE

\* The timestamps of the rows of a log that are classified as starts.
CandidateTimes(df) ==
    {Val(to_datetime(df.rows[i].date)) :
        i \in {k \in DOMAIN df.rows :
                  _is_sc_start(df.rows[k]) /\ to_datetime(df.rows[k].date) # NaT}}

\* A log with a date column in which every date is a timestamp.
IsDatedLog(df) ==
    /\ "date" \in df.columns
    /\ \A i \in DOMAIN df.rows : to_datetime(df.rows[i].date) # NaT

\* The gap from candidate timestamp t back to the candidate before it is
\* at most the merge window.
JoinsPrevious(S, t) == \E u \in S : u < t /\ t - u <= merge_window_seconds

\* The candidate timestamps that open a cluster: the first one, and each one
\* more than the merge window after the candidate before it.
ClusterStarts(S) == {t \in S : ~JoinsPrevious(S, t)}

\* C13: when every gap between successive candidate timestamps is at most the
\* merge window (300 s), detect_sc_events returns exactly one event, however
\* many candidates the chain has, and its start is the first candidate's
\* timestamp.
C13_ChainIsOneEvent ==
    (Returned("detect_sc_events") /\ IsDatedLog(args.race_control_df)) =>
        LET S == CandidateTimes(args.race_control_df)
        IN  (S # {} /\ \A t \in S : t = Minimum(S) \/ JoinsPrevious(S, t)) =>
                ret = <<Some(Minimum(S))>>

\* C14: detect_sc_events opens an event at every candidate row whose gap to
\* the preceding candidate row exceeds the merge window, returns exactly one
\* start per cluster, the timestamp of the cluster's first row, and returns
\* the starts in ascending order whatever the order of the input rows.
C14_OneStartPerCluster ==
    (Returned("detect_sc_events") /\ IsDatedLog(args.race_control_df)) =>
        LET starts == ClusterStarts(CandidateTimes(args.race_control_df))
        IN  /\ \A t \in starts : Some(t) \in SeqRange(ret)
            /\ Len(ret) = Cardinality(starts)
            /\ \A i \in DOMAIN ret : ret[i] # NaT /\ Val(ret[i]) \in starts
            /\ \A i \in 1..(Len(ret) - 1) : Val(ret[i]) < Val(ret[i + 1])

(***************************************************************************)
(* timeline_builder.py: build_session_timeline, build_all_timelines.       *)
(***************************************************************************)
grid_interval_seconds == 30

\* interval = interval_seconds or cfg.features.grid_interval_seconds
Interval(interval_seconds) ==
    IF Truthy(interval_seconds) THEN Val(interval_seconds) ELSE grid_interval_seconds

\* A range that holds one more point than fits before the end.
DateRangePastEnd(start, end, interval) ==
    IF end < start THEN <<>>
    ELSE [k \in 1..((end - start) \div interval + 2) |-> start + (k - 1) * interval]

\* pd.date_range(start=, end=, freq=f"{interval}s"), interval > 0
date_range(start, end, interval) ==
    IF end < start THEN <<>>
    ELSE [k \in 1..((end - start) \div interval + 1) |-> start + (k - 1) * interval]

TimelineColumns == {"session_key", "meeting_key", "year", "meeting_name", "timestamp"}

\* pd.DataFrame()
EmptyFrame == Table({}, <<>>)

build_session_timeline(session, interval_seconds) ==
    LET interval == Interval(interval_seconds)
        date_start == parse_openf1_timestamp(session.date_start)
        date_end == parse_openf1_timestamp(session.date_end)
    IN  IF date_start = None \/ date_end = None THEN EmptyFrame
        ELSE LET timestamps == date_range(Val(date_start), Val(date_end), interval)
             IN  Table(TimelineColumns,
                       [k \in DOMAIN timestamps |->
                           [session_key |-> session.session_key,
                            meeting_key |-> session.meeting_key,
                            year |-> session.year,
                            meeting_name |-> session.meeting_name,
                            timestamp |-> timestamps[k]]])

\* df.empty
IsEmpty(df) == df.rows = <<>> \/ df.columns = {}

\* A batch that is given up as soon as one session has no grid.
BuildAllOrNothing(sessions, interval_seconds) ==
    LET built == [k \in DOMAIN sessions |->
                     build_session_timeline(sessions[k], interval_seconds)]
    IN  IF \E k \in DOMAIN built : IsEmpty(built[k]) THEN EmptyFrame
        ELSE IF built = <<>> THEN EmptyFrame
        ELSE LET combined == concat(built)
             IN  Table(combined.columns,
                       sort_values(sort_values(combined.rows, "timestamp"), "session_key"))

build_all_timelines(sessions, interval_seconds) ==
    LET built == [k \in DOMAIN sessions |->
                     build_session_timeline(sessions[k], interval_seconds)]
        frames == SelectSeq(built, LAMBDA df : ~IsEmpty(df))
    IN  IF frames = <<>> THEN EmptyFrame
        ELSE LET combined == concat(frames)
             \* sort_values(["session_key", "timestamp"]).reset_index(drop=True)
             IN  Table(combined.columns,
                       sort_values(sort_values(combined.rows, "timestamp"), "session_key"))

(***************************************************************************)
(* Inputs of the timeline builder.                                         *)
(***************************************************************************)
Session(session_key, date_start, date_end) ==
    [session_key |-> session_key, meeting_key |-> session_key, year |-> 2024,
     meeting_name |-> "Test GP", date_start |-> date_start, date_end |-> date_end]

\* Session bounds: a few seconds apart, or one or two default intervals.
BoundClocks == (0..MaxT) \cup {grid_interval_seconds, 2 * grid_interval_seconds}

BoundStrings ==
    {None, Some(Empty), Some(Text)}
    \cup {Some(Naive(c)) : c \in BoundClocks}
    \cup {Some(Aware(c + o, o)) : c \in BoundClocks, o \in {0, 60 * 60}}

IntervalArgs == {None} \cup {Some(n) : n \in 0..MaxInterval}

\* The sessions of a batch: with an unparseable start, without end, with the
\* end before the start, and with valid bounds.
BatchSessions ==
    {Session(k, s, e) :
        k \in Sessions,
        s \in {Some(Text), Some(Naive(0)), Some(Naive(2))},
        e \in {None, Some(Naive(1)), Some(Naive(MaxT))}}

InitTimeline ==
    /\ pc = "call"
    /\ ret = None
    /\ \/ /\ fn = "build_session_timeline"
          /\ \E k \in Sessions, s \in BoundStrings, e \in BoundStrings, i \in IntervalArgs :
                args = [session |-> Session(k, s, e), interval_seconds |-> i]
       \/ /\ fn = "build_all_timelines"
          /\ \E b \in SeqsUpTo(BatchSessions, MaxSessions), i \in IntervalArgs :
                args = [sessions |-> b, interval_seconds |-> i]

BuildSessionTimeline ==
    /\ pc = "call"
    /\ fn = "build_session_timeline"
    /\ ret' = build_session_timeline(args.session, args.interval_seconds)
    /\ pc' = "return"
    /\ UNCHANGED <<fn, args>>

BuildAllTimelines ==
    /\ pc = "call"
    /\ fn = "build_all_timelines"
    /\ ret' = build_all_timelines(args.sessions, args.interval_seconds)
    /\ pc' = "return"
    /\ UNCHANGED <<fn, args>>

NextTimeline == BuildSessionTimeline \/ BuildAllTimelines

SpecTimeline == InitTimeline /\ [][NextTimeline]_vars

(***************************************************************************)
(* Properties of the timeline builder.                                     *)
(***************************************************************************)
\* The UTC second a bound string denotes; None if it denotes none.
BoundOf(str) ==
    IF str = None \/ Val(str).form \in {"empty", "text"} THEN None
    ELSE IF Val(str).form = "naive" THEN Some(Val(str).clock)
    ELSE Some(Val(str).clock - Val(str).offset)

HasValidBounds(session) ==
    /\ BoundOf(session.date_start) # None
    /\ BoundOf(session.date_end) # None
    /\ Val(BoundOf(session.date_start)) <= Val(BoundOf(session.date_end))

\* The interval the caller asked for: the argument, else the default.
CallerInterval(interval_seconds) ==
    IF interval_seconds = None THEN grid_interval_seconds ELSE Val(interval_seconds)

\* The timestamps start + k * i, k = 0, 1, 2, ..., that are <= end.
GridPoints(session, i) ==
    LET start == Val(BoundOf(session.date_start))
        end == Val(BoundOf(session.date_end))
    IN  {t \in start..end : (t - start) % i = 0}

TimestampsOf(rows) == [k \in DOMAIN rows |-> rows[k].timestamp]

\* C15: for session bounds start <= end and a positive interval i (the
\* default when none is passed), build_session_timeline returns exactly the
\* timestamps start + k * i that are <= end: the first point is start,
\* consecutive points differ by exactly i, the sequence is strictly
\* increasing and no point lies after end.
C15_GridIsStartPlusMultiples ==
    (Returned("build_session_timeline") /\ HasValidBounds(args.session)
        /\ CallerInterval(args.interval_seconds) > 0) =>
        LET i == CallerInterval(args.interval_seconds)
            times == TimestampsOf(ret.rows)
        IN  /\ SeqRange(times) = GridPoints(args.session, i)
            /\ times[1] = Val(BoundOf(args.session.date_start))
            /\ \A k \in 1..(Len(times) - 1) :
                  times[k + 1] - times[k] = i /\ times[k] < times[k + 1]
            /\ \A k \in DOMAIN times : times[k] <= Val(BoundOf(args.session.date_end))

\* A grid of at least three points whose end is not on the grid, built from
\* a start written with a UTC offset.
C15_Witness ==
    /\ Returned("build_session_timeline")
    /\ HasValidBounds(args.session)
    /\ CallerInterval(args.interval_seconds) > 0
    /\ Val(args.session.date_start).offset # 0
    /\ Len(ret.rows) >= 3
    /\ ret.rows[Len(ret.rows)].timestamp < Val(BoundOf(args.session.date_end))

\* The grid rows a session contributes to a batch: none without valid bounds.
RECURSIVE ExpectedRows(_, _)
ExpectedRows(sessions, i) ==
    IF sessions = <<>> THEN 0
    ELSE ExpectedRows(Tail(sessions), i)
            + (IF HasValidBounds(sessions[1])
               THEN Cardinality(GridPoints(sessions[1], i)) ELSE 0)

\* C16: build_session_timeline returns an empty grid when the session start
\* or end is missing or unparseable or when end < start, and
\* build_all_timelines skips such sessions and returns the grid points of
\* all remaining sessions.
C16_BadBoundsGiveEmptyGridAndAreSkipped ==
    /\ (Returned("build_session_timeline") /\ ~HasValidBounds(args.session)) =>
          ret.rows = <<>>
    /\ Returned("build_all_timelines") =>
          LET i == Interval(args.interval_seconds)
          IN  /\ Len(ret.rows) = ExpectedRows(args.sessions, i)
              /\ \A k \in DOMAIN args.sessions :
                    HasValidBounds(args.sessions[k]) =>
                        \A t \in GridPoints(args.sessions[k], i) :
                            \E r \in DOMAIN ret.rows :
                                /\ ret.rows[r].timestamp = t
                                /\ ret.rows[r].session_key = args.sessions[k].session_key
              /\ \A r \in DOMAIN ret.rows :
                    \E k \in DOMAIN args.sessions :
                        /\ HasValidBounds(args.sessions[k])
                        /\ ret.rows[r].session_key = args.sessions[k].session_key
                        /\ ret.rows[r].timestamp \in GridPoints(args.sessions[k], i)

\* A batch with a session whose start is unparseable, a session whose end is before its
\* start and a session with valid bounds, whose grid is returned.
C16_Witness ==
    /\ Returned("build_all_timelines")
    /\ \E a, b, c \in DOMAIN args.sessions :
          /\ BoundOf(args.sessions[a].date_start) = None
          /\ BoundOf(args.sessions[b].date_start) # None
          /\ BoundOf(args.sessions[b].date_end) # None
          /\ Val(BoundOf(args.sessions[b].date_end)) < Val(BoundOf(args.sessions[b].date_start))
          /\ HasValidBounds(args.sessions[c])
    /\ ret.rows # <<>>

(***************************************************************************)
(* alert_analysis.py: analyze_alert_policy.  Probabilities and thresholds  *)
(* are tenths (5 is 0.5).                                                  *)
(***************************************************************************)
\* thresholds = [0.1, 0.2, 0.3, 0.4, 0.5, 0.6, 0.7]
DefaultThresholds == [k \in 1..7 |-> k]

\* round(x, digits) of the float num/den >= 0, scale = 10^digits: the
\* nearest multiple of 1/scale, a tie going to the even one.
Round(x, scale) ==
    IF x = NaN THEN NaN
    ELSE LET q == (x.num * scale) \div x.den
             r == (x.num * scale) % x.den
             n == IF 2 * r < x.den THEN q
                  ELSE IF 2 * r > x.den THEN q + 1
                  ELSE IF q % 2 = 0 THEN q ELSE q + 1
         IN  Frac(n, scale)

\* An alert that needs a probability above the threshold.
AlertAbove(prob, thresh) == IF prob > thresh THEN 1 ELSE 0

\* df["_alert"] = (df["_prob"] >= thresh).astype(int)
Alert(prob, thresh) == IF prob >= thresh THEN 1 ELSE 0

\* ((df["_alert"] == alert) & (df["_y"] == y)): the rows of the cell.
Confusion(df, y_prob, thresh, alert, y) ==
    {i \in DOMAIN df.rows : Alert(y_prob[i], thresh) = alert /\ df.rows[i].y_sc_5m = y}

\* df.groupby(session_col)["_alert"].sum().mean()
AlertsPerRace(df, y_prob, thresh) ==
    LET sessions == {df.rows[i].session_key : i \in DOMAIN df.rows}
        alerts == {i \in DOMAIN df.rows : Alert(y_prob[i], thresh) = 1}
    IN  IF sessions = {} THEN NaN ELSE Frac(Cardinality(alerts), Cardinality(sessions))

\* A rate that divides whatever the denominator.
RateUnguarded(count, total) == IF total > 0 THEN Frac(count, total) ELSE NaN

\* count / total if total > 0 else 0.0
Rate(count, total) == IF total > 0 THEN Frac(count, total) ELSE F(0)

\* The k-th smallest of a non-empty sequence of integers.
KthSmallest(xs, k) ==
    CHOOSE x \in SeqRange(xs) :
        /\ Cardinality({i \in DOMAIN xs : xs[i] < x}) < k
        /\ Cardinality({i \in DOMAIN xs : xs[i] <= x}) >= k

\* Series.median() of integers: the middle value, or the mean of the two.
Median(xs) ==
    LET n == Len(xs)
    IN  IF n = 0 THEN NaN
        ELSE IF n % 2 = 1 THEN F(KthSmallest(xs, (n + 1) \div 2))
        ELSE Frac(KthSmallest(xs, n \div 2) + KthSmallest(xs, n \div 2 + 1), 2)

\* median_lead: the median time-to-event of the true-positive rows, NaN
\* without a true positive or without the time-to-event column.
MedianLead(df, y_prob, thresh) ==
    LET tp_mask == Confusion(df, y_prob, thresh, 1, 1)
        hits == SelectSeq([i \in DOMAIN df.rows |-> i], LAMBDA i : i \in tp_mask)
    IN  IF tp_mask # {} /\ "time_to_sc_seconds" \in df.columns
        THEN Median([k \in DOMAIN hits |-> df.rows[hits[k]].time_to_sc_seconds])
        ELSE NaN

\* The dict appended to results for one threshold.
PolicyRecord(df, y_prob, thresh) ==
    LET tp == Cardinality(Confusion(df, y_prob, thresh, 1, 1))
        fp == Cardinality(Confusion(df, y_prob, thresh, 1, 0))
        fneg == Cardinality(Confusion(df, y_prob, thresh, 0, 1))
        tn == Cardinality(Confusion(df, y_prob, thresh, 0, 0))
        median_lead == MedianLead(df, y_prob, thresh)
    IN  [threshold |-> thresh,
         alerts_per_race |-> Round(AlertsPerRace(df, y_prob, thresh), 100),
         median_lead_time_s |->
             IF median_lead # NaN THEN Some(Round(median_lead, 10)) ELSE None,
         true_positive_rate |-> Round(Rate(tp, tp + fneg), 10000),
         false_positive_rate |-> Round(Rate(fp, fp + tn), 10000),
         precision |-> Round(Rate(tp, tp + fp), 10000)]

ReportColumns ==
    {"threshold", "alerts_per_race", "median_lead_time_s", "true_positive_rate",
     "false_positive_rate", "precision"}

\* pd.DataFrame(results): a column that holds numbers and None becomes a
\* float column in which None is NaN; a column of None only keeps None.
DataFrameOf(results) ==
    LET numeric == \E k \in DOMAIN results : results[k].median_lead_time_s # None
    IN  IF results = <<>> THEN EmptyFrame
        ELSE Table(ReportColumns,
                   [k \in DOMAIN results |->
                       IF numeric /\ results[k].median_lead_time_s = None
                       THEN [results[k] EXCEPT !.median_lead_time_s = Some(NaN)]
                       ELSE results[k]])

analyze_alert_policy(test_df, y_prob, thresholds) ==
    LET used == IF thresholds = None THEN DefaultThresholds ELSE Val(thresholds)
        results == [k \in DOMAIN used |-> PolicyRecord(test_df, y_prob, used[k])]
    IN  DataFrameOf(results)

(***************************************************************************)
(* Inputs of the alert analysis.                                           *)
(***************************************************************************)
TestColumns == {"session_key", "y_sc_5m", "time_to_sc_seconds"}

TestRowInputs == [session_key : Sessions, y_sc_5m : {0, 1}, time_to_sc_seconds : {30, 60}]

ProbInputs == {2, 5}

ThresholdInputs == {None} \cup {Some(t) : t \in SeqsUpTo({2, 5, 8}, MaxThresholds)}

InitAlert ==
    /\ pc = "call"
    /\ ret = None
    /\ fn = "analyze_alert_policy"
    /\ \E rows \in SeqsUpTo(TestRowInputs, MaxAlertRows), t \in ThresholdInputs,
          dropped \in {{}, {"time_to_sc_seconds"}} :
          \E y_prob \in [DOMAIN rows -> ProbInputs] :
              args = [test_df |-> DropColumns(Table(TestColumns, rows), dropped),
                      y_prob |-> y_prob, thresholds |-> t]

AnalyzeAlertPolicy ==
    /\ pc = "call"
    /\ fn = "analyze_alert_policy"
    /\ ret' = analyze_alert_policy(args.test_df, args.y_prob, args.thresholds)
    /\ pc' = "return"
    /\ UNCHANGED <<fn, args>>

NextAlert == AnalyzeAlertPolicy

SpecAlert == InitAlert /\ [][NextAlert]_vars

(***************************************************************************)
(* Properties of the alert analysis.                                       *)
(***************************************************************************)
\* The thresholds a call reports on.
ThresholdsOf(thresholds) == IF thresholds = None THEN DefaultThresholds ELSE Val(thresholds)

\* The input rows whose probability is >= thresh.
Alerted(thresh) == {i \in DOMAIN args.test_df.rows : args.y_prob[i] >= thresh}

\* The input rows with label y.
Labelled(y) == {i \in DOMAIN args.test_df.rows : args.test_df.rows[i].y_sc_5m = y}

Rows == DOMAIN args.test_df.rows

\* count / total rounded to 4 decimals.
Ratio(count, total) == Round(Frac(count, total), 10000)

\* C17: for each threshold an alert fires at a row iff its probability is >=
\* the threshold; TP, FP, FN and TN count the rows by (alert, label) and, the
\* labels being binary, add up to the number of input rows; the report has
\* exactly one record per threshold, in the order given.
C17_AlertIffProbAtLeastThreshold ==
    Returned("analyze_alert_policy") =>
        LET used == ThresholdsOf(args.thresholds)
            sessions == {args.test_df.rows[i].session_key : i \in Rows}
        IN  /\ Len(ret.rows) = Len(used)
            /\ \A k \in DOMAIN ret.rows :
                  LET thresh == used[k]
                      tp == Alerted(thresh) \cap Labelled(1)
                      fp == Alerted(thresh) \cap Labelled(0)
                      fneg == (Rows \ Alerted(thresh)) \cap Labelled(1)
                      tn == (Rows \ Alerted(thresh)) \cap Labelled(0)
                      count(alert, y) ==
                          Cardinality(Confusion(args.test_df, args.y_prob, thresh, alert, y))
                  IN  /\ ret.rows[k].threshold = thresh
                      /\ count(1, 1) = Cardinality(tp)
                      /\ count(1, 0) = Cardinality(fp)
                      /\ count(0, 1) = Cardinality(fneg)
                      /\ count(0, 0) = Cardinality(tn)
                      /\ count(1, 1) + count(1, 0) + count(0, 1) + count(0, 0)
                             = Len(args.test_df.rows)
                      /\ sessions # {} =>
                            ret.rows[k].alerts_per_race =
                                Round(Frac(Cardinality(Alerted(thresh)),
                                           Cardinality(sessions)), 100)
                      /\ tp \cup fneg # {} =>
                            ret.rows[k].true_positive_rate =
                                Ratio(Cardinality(tp), Cardinality(tp \cup fneg))
                      /\ fp \cup tn # {} =>
                            ret.rows[k].false_positive_rate =
                                Ratio(Cardinality(fp), Cardinality(fp \cup tn))
                      /\ tp \cup fp # {} =>
                            ret.rows[k].precision =
                                Ratio(Cardinality(tp), Cardinality(tp \cup fp))

\* A report on two different thresholds, the first the greater, in which a
\* row with a probability equal to a threshold is a true positive and another
\* row is a false negative.
C17_Witness ==
    /\ Returned("analyze_alert_policy")
    /\ args.thresholds # None
    /\ Len(ret.rows) = 2
    /\ ret.rows[1].threshold > ret.rows[2].threshold
    /\ \E i, j \in Rows :
          /\ args.y_prob[i] = ret.rows[2].threshold
          /\ args.test_df.rows[i].y_sc_5m = 1
          /\ args.y_prob[j] < ret.rows[2].threshold
          /\ args.test_df.rows[j].y_sc_5m = 1
          /\ ret.rows[2].true_positive_rate = Ratio(1, 2)

\* C18: the true-positive rate, the false-positive rate and the precision
\* are 0, not NaN, whenever their denominator (TP+FN, FP+TN, TP+FP) is 0; at
\* a threshold that no probability reaches all three are 0.
C18_ZeroDenominatorGivesZero ==
    Returned("analyze_alert_policy") =>
        \A k \in DOMAIN ret.rows :
            LET thresh == ThresholdsOf(args.thresholds)[k]
                x == ret.rows[k]
            IN  /\ Labelled(1) = {} => x.true_positive_rate = F(0)
                /\ Labelled(0) = {} => x.false_positive_rate = F(0)
                /\ Alerted(thresh) \cap (Labelled(0) \cup Labelled(1)) = {} =>
                      x.precision = F(0)
                /\ Alerted(thresh) = {} =>
                      /\ x.true_positive_rate = F(0)
                      /\ x.false_positive_rate = F(0)
                      /\ x.precision = F(0)
                /\ x.true_positive_rate # NaN
                /\ x.false_positive_rate # NaN
                /\ x.precision # NaN

\* A report on rows that are all labelled 1, with a threshold above every
\* probability: no alert, FP+TN = 0 and TP+FP = 0.
C18_Witness ==
    /\ Returned("analyze_alert_policy")
    /\ Rows # {}
    /\ Labelled(0) = {}
    /\ \E k \in DOMAIN ret.rows :
          /\ Alerted(ret.rows[k].threshold) = {}
          /\ ret.rows[k].true_positive_rate = F(0)
          /\ ret.rows[k].false_positive_rate = F(0)
          /\ ret.rows[k].precision = F(0)

\* The time-to-event values of the true-positive rows at a threshold.
LeadTimes(thresh) ==
    LET hits == SelectSeq([i \in Rows |-> i],
                          LAMBDA i : i \in Alerted(thresh) \cap Labelled(1))
    IN  [k \in DOMAIN hits |-> args.test_df.rows[hits[k]].time_to_sc_seconds]

\* C19: the report has one record per threshold, none dropped, and its lead
\* time is the median of the time-to-event values of the true-positive rows
\* of that threshold, and null (None, not NaN and not 0) when the threshold
\* has no true positive, whatever the other thresholds of the report have.
C19_LeadTimeIsMedianOrNull ==
    (Returned("analyze_alert_policy") /\ "time_to_sc_seconds" \in args.test_df.columns) =>
        /\ Len(ret.rows) = Len(ThresholdsOf(args.thresholds))
        /\ \A k \in DOMAIN ret.rows :
              LET thresh == ThresholdsOf(args.thresholds)[k]
              IN  ret.rows[k].median_lead_time_s =
                      IF Alerted(thresh) \cap Labelled(1) # {}
                      THEN Some(Round(Median(LeadTimes(thresh)), 10))
                      ELSE None

(***************************************************************************)
(* Properties of the as-of join: column collisions and input validation.   *)
(***************************************************************************)
\* The columns the grid and the auxiliary table of the call both have,
\* other than the join key and the partition key.
Collisions ==
    (args.left.columns \cap args.right.columns)
        \ ({args.on} \cup (IF args.by = None THEN {} ELSE {Val(args.by)}))

\* The number of rows that hold timestamp t and cell v in column c.
CountOf(rows, on, c, t, v) ==
    Cardinality({i \in DOMAIN rows : rows[i][on] = t /\ rows[i][c] = v})

\* C21: asof_join resolves a column of both the grid and the auxiliary table,
\* other than the join key and the partition key, by dropping the auxiliary
\* column: the result has the column once, without a suffixed copy, and every
\* result row holds in it the value of its grid row.
C21_CollisionKeepsGridColumn ==
    ReturnedTable("asof_join") =>
        /\ Len(ret.rows) = Len(args.left.rows)
        /\ \A c \in Collisions :
              /\ c \in ret.columns
              /\ Suffixed(c, "_x") \notin ret.columns
              /\ Suffixed(c, "_y") \notin ret.columns
              /\ \A i \in DOMAIN args.left.rows :
                    LET t == args.left.rows[i][args.on]
                        v == args.left.rows[i][c]
                    IN  CountOf(ret.rows, args.on, c, t, v)
                            = CountOf(args.left.rows, args.on, c, t, v)

\* A grid row that took the value of an auxiliary row whose cell in the
\* colliding column differs from the grid's.
C21_Witness ==
    /\ ReturnedTable("asof_join")
    /\ "session_key" \in Collisions
    /\ \E i \in DOMAIN ret.rows : \E j \in DOMAIN args.right.rows :
          /\ ret.rows[i].value = args.right.rows[j].value
          /\ args.right.rows[j].session_key # ret.rows[i].session_key
          /\ \E k \in DOMAIN args.left.rows :
                /\ args.left.rows[k].timestamp = ret.rows[i].timestamp
                /\ args.left.rows[k].session_key = ret.rows[i].session_key

\* The timestamps of a frame in row order.
TimestampsIn(df, on) == [i \in DOMAIN df.rows |-> df.rows[i][on]]

\* The frame's timestamp column is in chronological order and of timestamp
\* type.
WellFormed(df, on) ==
    /\ \A i \in 1..(Len(df.rows) - 1) : df.rows[i][on] <= df.rows[i + 1][on]
    /\ is_datetime64_any_dtype(df, on)

\* C22: asof_join raises an input error, instead of returning a result, when
\* the timestamp column of the grid or of the auxiliary table is not in
\* chronological order or is not of timestamp type.
C22_RaisesOnUnorderedOrUntyped ==
    (Returned("asof_join")
        /\ ~(WellFormed(args.left, args.on) /\ WellFormed(args.right, args.on))) =>
        ret.error # "none"

(***************************************************************************)
(* Further properties of assign_labels.                                    *)
(***************************************************************************)
\* The pairs of consecutive grid rows that both lie strictly before event e.
PairsBefore(timeline_df, e) ==
    {i \in 1..(Len(timeline_df) - 1) : timeline_df[i + 1].timestamp < e}

\* C25: with a single event, over consecutive grid points strictly before the
\* event the time-to-event never increases as t increases, and it strictly
\* decreases between two consecutive points whose gaps to the event are both
\* below the cap.
C25_TimeToEventMonotonic ==
    (Returned("assign_labels") /\ Len(args.sc_events) = 1) =>
        LET e == args.sc_events[1]
            cap == Cap(args.cap_seconds)
        IN  \A i \in PairsBefore(args.timeline_df, e) :
                /\ ret[i + 1].time_to_sc_seconds <= ret[i].time_to_sc_seconds
                /\ (e - args.timeline_df[i].timestamp < cap
                        /\ e - args.timeline_df[i + 1].timestamp < cap) =>
                      ret[i + 1].time_to_sc_seconds < ret[i].time_to_sc_seconds

\* A grid with two consecutive points before the single event whose gaps are
\* below the cap, and the time-to-event decreasing by the grid interval.
C25_Witness ==
    /\ Returned("assign_labels")
    /\ Len(args.sc_events) = 1
    /\ \E i \in PairsBefore(args.timeline_df, args.sc_events[1]) :
          /\ args.sc_events[1] - args.timeline_df[i].timestamp < Cap(args.cap_seconds)
          /\ ret[i].time_to_sc_seconds - ret[i + 1].time_to_sc_seconds
                 = args.timeline_df[i + 1].timestamp - args.timeline_df[i].timestamp
          /\ ret[i + 1].time_to_sc_seconds > 0

(***************************************************************************)
(* The enrichment steps of a grid: labels, then joined features.           *)
(***************************************************************************)
InitEnrich == InitLabel \/ InitAsof

NextEnrich == NextLabel \/ NextAsof

SpecEnrich == InitEnrich /\ [][NextEnrich]_vars

\* The (session id, timestamp) pairs of a sequence of rows, in row order.
GridKeys(rows) == [i \in DOMAIN rows |-> <<rows[i].session_key, rows[i].timestamp>>]

\* The rows are in (session id, timestamp) order.
IsSortedGrid(rows) ==
    \A i \in 1..(Len(rows) - 1) :
        \/ rows[i].session_key < rows[i + 1].session_key
        \/ /\ rows[i].session_key = rows[i + 1].session_key
           /\ rows[i].timestamp <= rows[i + 1].timestamp

\* C26: for a grid sorted by (session id, timestamp), assign_labels and
\* asof_join_by_session each return one row per grid row, in the grid's
\* order, with the (session id, timestamp) values unchanged.
C26_EnrichmentPreservesGrid ==
    /\ (Returned("assign_labels") /\ IsSortedGrid(args.timeline_df)) =>
          GridKeys(ret) = GridKeys(args.timeline_df)
    /\ (ReturnedTable("asof_join_by_session") /\ IsSortedGrid(args.left.rows)) =>
          GridKeys(ret.rows) = GridKeys(args.left.rows)

\* A grid of two sessions, the first session's point later than the second
\* session's, joined with an auxiliary row that gives one of them a value.
C26_Witness ==
    /\ ReturnedTable("asof_join_by_session")
    /\ Len(args.left.rows) = 2
    /\ args.left.rows[1].session_key < args.left.rows[2].session_key
    /\ args.left.rows[1].timestamp > args.left.rows[2].timestamp
    /\ GridKeys(ret.rows) = GridKeys(args.left.rows)
    /\ \E i \in DOMAIN ret.rows : AuxCell(ret.rows[i], "value") # NaN

(***************************************************************************)
(* Further properties of the event detector.                               *)
(***************************************************************************)
\* The parsed dates, null ones included, of the rows classified as starts.
CandidateDates(df) ==
    {to_datetime(df.rows[i].date) :
        i \in {k \in DOMAIN df.rows : _is_sc_start(df.rows[k])}}

\* C28: every list returned by detect_sc_events consists only of timestamps
\* of rows classified as starts, begins with the earliest such timestamp, is
\* strictly increasing, and any two consecutive events of it are more than
\* the merge window (300 s) apart.
C28_EventsAreSpacedStarts ==
    (Returned("detect_sc_events") /\ "date" \in args.race_control_df.columns) =>
        LET S == CandidateTimes(args.race_control_df)
        IN  /\ \A i \in DOMAIN ret : ret[i] \in CandidateDates(args.race_control_df)
            /\ S # {} => (ret # <<>> /\ ret[1] = Some(Minimum(S)))
            /\ \A i \in 1..(Len(ret) - 1) :
                  /\ ret[i] # NaT
                  /\ ret[i + 1] # NaT
                  /\ Val(ret[i]) < Val(ret[i + 1])
                  /\ Val(ret[i + 1]) - Val(ret[i]) > merge_window_seconds

\* Three start rows given out of order, the middle one inside the window of
\* the first: two events are returned, the earliest row's and the last one's.
C28_Witness ==
    /\ Returned("detect_sc_events")
    /\ "date" \in args.race_control_df.columns
    /\ Len(ret) = 2
    /\ Cardinality(CandidateTimes(args.race_control_df)) = 3
    /\ ret[1] = Some(Minimum(CandidateTimes(args.race_control_df)))
    /\ to_datetime(args.race_control_df.rows[1].date) # ret[1]

\* The horizon the caller asked for: the argument when given, else the default.
CallerHorizon(horizon_seconds) ==
    IF horizon_seconds = None THEN prediction_horizon_seconds ELSE Val(horizon_seconds)

\* C29: assign_labels labels with the horizon_seconds and cap_seconds of the
\* caller whenever they are given, the value 0 included, and with the
\* configured defaults (300 / 1800) only when the argument is None; with
\* horizon_seconds = 0 no grid point is labelled 1.
C29_CallerHorizonAndCapAreUsed ==
    (Returned("assign_labels") /\ IsAscending(args.sc_events)) =>
        /\ \A i \in DOMAIN ret :
              LET t == args.timeline_df[i].timestamp
                  after == EventsAfter(args.sc_events, t)
                  horizon == CallerHorizon(args.horizon_seconds)
                  cap == CallerCap(args.cap_seconds)
              IN  /\ ret[i].y_sc_5m =
                        IF after # {} /\ Minimum(after) - t <= horizon THEN 1 ELSE 0
                  /\ ret[i].time_to_sc_seconds =
                        IF after # {} THEN Min(Minimum(after) - t, cap) ELSE cap
        /\ args.horizon_seconds = Some(0) => \A i \in DOMAIN ret : ret[i].y_sc_5m = 0

(***************************************************************************)
(* Further properties of the rolling helpers.                              *)
(***************************************************************************)
\* The source rows that have a timestamp.
RowsWithTimestamp(event_df, ts_col) == SelectSeq(event_df, LAMBDA r : r[ts_col] # NaT)

\* C30: rolling_agg ignores the source rows whose timestamp is null: it
\* raises no error and returns, for every query timestamp, what it returns
\* for the source without those rows.
C30_AggIgnoresNullTimestamps ==
    (Returned("rolling_agg") /\ args.agg_fn \in agg_map) =>
        /\ ret.error = "none"
        /\ ret = rolling_agg(args.timeline_ts,
                             RowsWithTimestamp(args.event_df, args.ts_col),
                             args.ts_col, args.value_col, args.window_seconds,
                             args.agg_fn)

(***************************************************************************)
(* models/splitter.py: temporal_train_test_split.  A row of the master     *)
(* table keeps its index label, its meeting key and its timestamp;         *)
(* test_fraction is a number of hundredths.                                *)
(***************************************************************************)
\* df.groupby(meeting_col)[time_col].min(): the earliest timestamp of a meeting.
GroupMin(df, meeting_key) ==
    Minimum({df[i].timestamp : i \in {k \in DOMAIN df : df[k].meeting_key = meeting_key}})

\* .sort_values().index.tolist(): the meeting keys by earliest timestamp;
\* the sort is not stable, so meetings of equal earliest timestamp come in
\* any order.
MeetingOrders(df) ==
    LET keys == {df[i].meeting_key : i \in DOMAIN df}
    IN  {o \in SeqsUpTo(keys, Cardinality(keys)) :
            /\ SeqRange(o) = keys
            /\ Len(o) = Cardinality(keys)
            /\ \A i \in 1..(Len(o) - 1) : GroupMin(df, o[i]) <= GroupMin(df, o[i + 1])}

\* n_test = max(1, int(len(meeting_order) * test_fraction))
NTest(meeting_order, test_fraction) ==
    LET n == (Len(meeting_order) * test_fraction) \div 100
    IN  IF n >= 1 THEN n ELSE 1

\* meeting_order[-n_test:]
LastMeetings(meeting_order, n_test) ==
    {meeting_order[i] : i \in {k \in DOMAIN meeting_order : k > Len(meeting_order) - n_test}}

\* A mask that puts in the test set every row from the first timestamp of
\* the test meetings on, whatever its meeting.
TestMaskByTime(df, meetings) ==
    {i \in DOMAIN df :
        \E k \in DOMAIN df :
            df[k].meeting_key \in meetings /\ df[k].timestamp <= df[i].timestamp}

\* test_mask = df[meeting_col].isin(meetings)
test_mask(df, meetings) == {i \in DOMAIN df : df[i].meeting_key \in meetings}

\* df[~test_mask] and df[test_mask]
SplitBy(df, mask) ==
    [train_df |-> SelectSeq(df, LAMBDA r : r.index \notin mask),
     test_df |-> SelectSeq(df, LAMBDA r : r.index \in mask)]

\* meeting_order is the outcome of the sort of the meetings (read only when
\* test_meetings is None).
temporal_train_test_split(df, test_meetings, test_fraction, meeting_order) ==
    IF test_meetings # None
    THEN SplitBy(df, test_mask(df, Val(test_meetings)))
    ELSE LET n_test == NTest(meeting_order, test_fraction)
             test_meetings_auto == LastMeetings(meeting_order, n_test)
         IN  SplitBy(df, test_mask(df, test_meetings_auto))

(***************************************************************************)
(* Inputs of the split: a master table of at most MaxSplitRows rows over   *)
(* three meetings, whose rows may interleave in time.                      *)
(***************************************************************************)
Meetings == {1, 2, 3}

SplitKeys == SeqsUpTo(Meetings \X (0..MaxSplitT), MaxSplitRows)

MasterOf(keys) ==
    [i \in DOMAIN keys |->
        [index |-> i, meeting_key |-> keys[i][1], timestamp |-> keys[i][2]]]

\* test_fraction: the default 0.2, the 0.15 of the validation split, a half
\* and the whole.
FractionArgs == {20, 15, 50, 100}

\* Explicit test_meetings: any meetings, one of them absent from every table.
TestMeetingsArgs == {Some(m) : m \in SUBSET (Meetings \cup {4})}

InitSplit ==
    /\ pc = "call"
    /\ fn = "temporal_train_test_split"
    /\ ret = None
    /\ \E k \in SplitKeys :
          \/ \E f \in FractionArgs :
                args = [df |-> MasterOf(k), test_meetings |-> None, test_fraction |-> f]
          \/ \E m \in TestMeetingsArgs :
                args = [df |-> MasterOf(k), test_meetings |-> m, test_fraction |-> 20]

TemporalTrainTestSplit ==
    /\ pc = "call"
    /\ fn = "temporal_train_test_split"
    /\ \E meeting_order \in MeetingOrders(args.df) :
          ret' = temporal_train_test_split(args.df, args.test_meetings,
                                           args.test_fraction, meeting_order)
    /\ pc' = "return"
    /\ UNCHANGED <<fn, args>>

NextSplit == TemporalTrainTestSplit

SpecSplit == InitSplit /\ [][NextSplit]_vars

(***************************************************************************)
(* Properties of the split.                                                *)
(***************************************************************************)
MeetingsOf(rows) == {rows[i].meeting_key : i \in DOMAIN rows}

\* C27: temporal_train_test_split returns a train and a test table that
\* partition the input rows (every row in exactly one of them) and share no
\* meeting key, for an explicit test_meetings list as well as for the
\* automatic split by test_fraction.
C27_SplitPartitionsByMeeting ==
    Returned("temporal_train_test_split") =>
        /\ SeqRange(ret.train_df) \cup SeqRange(ret.test_df) = SeqRange(args.df)
        /\ SeqRange(ret.train_df) \cap SeqRange(ret.test_df) = {}
        /\ Len(ret.train_df) + Len(ret.test_df) = Len(args.df)
        /\ MeetingsOf(ret.train_df) \cap MeetingsOf(ret.test_df) = {}
        /\ args.test_meetings # None =>
              MeetingsOf(ret.test_df) = MeetingsOf(args.df) \cap Val(args.test_meetings)

\* An automatic split with rows on both sides in which a row of a training
\* meeting is later than a row of the test meeting.
C27_Witness ==
    /\ Returned("temporal_train_test_split")
    /\ args.test_meetings = None
    /\ \E i \in DOMAIN ret.train_df : \E j \in DOMAIN ret.test_df :
          ret.train_df[i].timestamp > ret.test_df[j].timestamp

(***************************************************************************)
(* config.py: FeatureConfig windows, in seconds.                           *)
(***************************************************************************)
short_window == 60

medium_window == 180

long_window == 600

dynamics_window == 120

dynamics_long_window == 300

(***************************************************************************)
(* Column assignment on a frame, and the outcome of a feature builder: the *)
(* frame it returns or the error it raises.                                *)
(***************************************************************************)
\* The row with the cells of extra added or replaced.
Extend(row, extra) ==
    [c \in (DOMAIN row) \cup (DOMAIN extra) |->
        IF c \in DOMAIN extra THEN extra[c] ELSE row[c]]

\* df[name] = ... for every name: extras[i] holds the new cells of row i.
AssignColumns(df, names, extras) ==
    Table(df.columns \cup names, [i \in DOMAIN df.rows |-> Extend(df.rows[i], extras[i])])

\* The same cells in every row.
AssignConstant(df, cells) ==
    AssignColumns(df, DOMAIN cells, [i \in DOMAIN df.rows |-> cells])

\* The frames of the sessions put together, or the first error raised in
\* the loop over the sessions; `otherwise` when there is no session.
Collect(outcomes, otherwise) ==
    LET failed == {k \in DOMAIN outcomes : outcomes[k].error # "none"}
    IN  IF failed # {} THEN Raised(outcomes[Minimum(failed)].error)
        ELSE IF outcomes = <<>> THEN Ok(otherwise)
        ELSE Ok(concat(outcomes))

(***************************************************************************)
(* text_features.py: build_text_features.  A text is a sequence of words   *)
(* (the empty string is the empty sequence), a keyword of several words is *)
(* one word, and a text cell of a table is the record Str(words).          *)
(***************************************************************************)
Str(words) == [text |-> words]

KEYWORD_FLAGS ==
    [debris_flag |-> {"DEBRIS"},
     crash_flag |-> {"CRASH", "ACCIDENT", "COLLISION", "INCIDENT"},
     stopped_flag |-> {"STOPPED"},
     rain_flag |-> {"RAIN", "WET", "SLIPPERY", "AQUAPLANING"},
     yellow_flag |-> {"YELLOW"},
     red_flag |-> {"RED FLAG"},
     track_limits_flag |-> {"TRACK LIMITS"},
     investigation_flag |-> {"INVESTIGATION"}]

\* The columns build_text_features adds.
TextColumns ==
    (DOMAIN KEYWORD_FLAGS)
        \cup {"recent_messages_concat", "msg_count_60s", "msg_count_180s",
              "msg_count_600s", "category_entropy_180s", "unique_categories_180s"}

\* 0 if col.endswith("_flag") or col.startswith("msg_count") else ""
TextDefault(col) ==
    IF col \in DOMAIN KEYWORD_FLAGS
           \/ col \in {"msg_count_60s", "msg_count_180s", "msg_count_600s"}
    THEN 0 ELSE Str(<<>>)

\* sep.join(texts)
RECURSIVE Join(_, _)
Join(sep, texts) ==
    IF texts = <<>> THEN <<>>
    ELSE IF Len(texts) = 1 THEN texts[1]
    ELSE texts[1] \o sep \o Join(sep, Tail(texts))

\* _shannon_entropy: 0.0 for no value and for values of one category; else
\* the entropy of the category counts, kept as the number of values and the
\* set of (category, count) pairs it is computed from.
_shannon_entropy(values) ==
    LET counts == {<<c, Cardinality({i \in DOMAIN values : values[i] = c})>> :
                      c \in SeqRange(values)}
    IN  IF Cardinality(counts) <= 1 THEN F(0)
        ELSE [total |-> Len(values), counts |-> counts]

\* pattern.search(combined_text), case-insensitive
Search(pattern, combined_text) ==
    \E i \in DOMAIN combined_text : Upper(combined_text[i]) \in pattern

\* The text cells of the grid row at t (loop body, 180 s window).
TextCells(t, rc_ts, messages, categories, counts) ==
    LET mask == SelectSeq([j \in DOMAIN rc_ts |-> j],
                    LAMBDA j : rc_ts[j] # NaT /\ InWindow(Val(rc_ts[j]), t, medium_window))
        window_msgs == [k \in DOMAIN mask |-> messages[mask[k]]]
        window_cats == [k \in DOMAIN mask |-> categories[mask[k]]]
        combined_text == Join(<<>>, window_msgs)
    IN  Extend([flag_name \in DOMAIN KEYWORD_FLAGS |->
                   IF Search(KEYWORD_FLAGS[flag_name], combined_text) THEN 1 ELSE 0],
               [recent_messages_concat |-> Str(Join(<<"|">>, window_msgs)),
                category_entropy_180s |-> _shannon_entropy(window_cats),
                unique_categories_180s |-> Cardinality(SeqRange(window_cats)),
                msg_count_60s |-> counts[1],
                msg_count_180s |-> counts[2],
                msg_count_600s |-> counts[3]])

\* One iteration of the loop over the sessions of the grid.
TextFrame(timeline_df, race_control_df, session_col, session_key) ==
    LET tl == FilterEq(timeline_df, session_col, session_key)
    IN  \* race_control_df[session_col]
        IF session_col \notin race_control_df.columns THEN Raised("KeyError")
        ELSE LET rc == FilterEq(race_control_df, session_col, session_key)
             IN  IF IsEmpty(rc)
                 THEN Ok(AssignConstant(tl, [col \in TextColumns |-> TextDefault(col)]))
                 ELSE IF ~({"date", "message", "category"} \subseteq rc.columns)
                 THEN Raised("KeyError")
                 ELSE LET dates == parse_timestamp_series(
                                       [j \in DOMAIN rc.rows |-> rc.rows[j].date])
                          rows == SortByDate([j \in DOMAIN rc.rows |->
                                                 [rc.rows[j] EXCEPT !.date = dates[j]]])
                          tl_ts == [i \in DOMAIN tl.rows |-> tl.rows[i].timestamp]
                          rc_ts == [j \in DOMAIN rows |-> rows[j].date]
                          \* .fillna("")
                          messages == [j \in DOMAIN rows |-> MessageOf(rows[j].message)]
                          categories == [j \in DOMAIN rows |-> StrOf(rows[j].category)]
                          short == rolling_count(tl_ts, rc_ts, short_window)
                          medium == rolling_count(tl_ts, rc_ts, medium_window)
                          long == rolling_count(tl_ts, rc_ts, long_window)
                      IN  Ok(AssignColumns(tl, TextColumns,
                                 [i \in DOMAIN tl.rows |->
                                     TextCells(tl_ts[i], rc_ts, messages, categories,
                                               <<short[i], medium[i], long[i]>>)]))

build_text_features(timeline_df, race_control_df, session_col) ==
    LET sessions == Unique(timeline_df.rows, session_col)
    IN  Collect([k \in DOMAIN sessions |->
                    TextFrame(timeline_df, race_control_df, session_col, sessions[k])],
                timeline_df)

(***************************************************************************)
(* weather_features.py: build_weather_features.                            *)
(***************************************************************************)
WEATHER_COLS ==
    {"rainfall", "track_temperature", "air_temperature", "wind_speed", "humidity",
     "pressure"}

\* a - b on float cells: NaN when either is NaN.
Minus(a, b) ==
    IF a = NaN \/ b = NaN THEN NaN
    ELSE Frac(a.num * b.den - b.num * a.den, a.den * b.den)

\* One iteration of the loop over the sessions of the merged grid: the two
\* rolling columns of the session.
WeatherFrame(merged, weather_slim, session_col, session_key) ==
    LET tl == FilterEq(merged, session_col, session_key)
        w == FilterEq(weather_slim, session_col, session_key)
        tl_ts == [i \in DOMAIN tl.rows |-> tl.rows[i].timestamp]
        max_rainfall == rolling_agg(tl_ts, w.rows, "timestamp", "rainfall",
                                    prediction_horizon_seconds, "max")
        min_temp == rolling_agg(tl_ts, w.rows, "timestamp", "track_temperature",
                                prediction_horizon_seconds, "min")
    IN  IF IsEmpty(w) \/ "rainfall" \notin w.columns
        THEN Ok(AssignConstant(tl, [max_rainfall_5m |-> NaN, track_temp_delta_5m |-> NaN]))
        ELSE IF max_rainfall.error # "none" THEN Raised(max_rainfall.error)
        ELSE IF "track_temperature" \notin w.columns
        THEN Ok(AssignColumns(tl, {"max_rainfall_5m", "track_temp_delta_5m"},
                    [i \in DOMAIN tl.rows |->
                        [max_rainfall_5m |-> max_rainfall.result[i],
                         track_temp_delta_5m |-> NaN]]))
        ELSE IF min_temp.error # "none" THEN Raised(min_temp.error)
        ELSE Ok(AssignColumns(tl, {"max_rainfall_5m", "track_temp_delta_5m"},
                    [i \in DOMAIN tl.rows |->
                        [max_rainfall_5m |-> max_rainfall.result[i],
                         track_temp_delta_5m |->
                             Minus(tl.rows[i].track_temperature, min_temp.result[i])]]))

build_weather_features(timeline_df, weather_df, session_col) ==
    IF IsEmpty(weather_df)
    THEN Ok(AssignConstant(timeline_df,
                [col \in WEATHER_COLS \cup {"max_rainfall_5m", "track_temp_delta_5m"} |->
                    NaN]))
    \* weather_df["date"], weather_df[right_cols]
    ELSE IF ~({"date", session_col} \subseteq weather_df.columns) THEN Raised("KeyError")
    ELSE LET right_cols == {"timestamp", session_col}
                               \cup (WEATHER_COLS \cap weather_df.columns)
             parsed == [j \in DOMAIN weather_df.rows |->
                           [c \in right_cols |->
                               IF c = "timestamp"
                               THEN to_datetime(weather_df.rows[j].date)
                               ELSE weather_df.rows[j][c]]]
             \* .dropna(subset=["timestamp"])
             weather_slim == Table(right_cols,
                                   SelectSeq(parsed, LAMBDA r : r.timestamp # NaT))
             right == Table(right_cols,
                            [j \in DOMAIN weather_slim.rows |->
                                [weather_slim.rows[j] EXCEPT !.timestamp = Val(@)]])
             merged == asof_join_by_session(timeline_df, right, "timestamp", session_col,
                                            Some(Minutes(10)))
             sessions == Unique(merged.rows, session_col)
         IN  IF merged.error # "none" THEN Raised(merged.error)
             ELSE Collect([k \in DOMAIN sessions |->
                              WeatherFrame(Table(merged.columns, merged.rows),
                                           weather_slim, session_col, sessions[k])],
                          Table(merged.columns, merged.rows))

(***************************************************************************)
(* dynamics_features.py: build_dynamics_features.  A missing cell of a     *)
(* numeric column is NaN.                                                  *)
(***************************************************************************)
\* pd.to_numeric(x, errors="coerce") of a cell: a number stays, a text
\* gives NaN.
to_numeric(cell) == IF DOMAIN cell = {"num", "den", "root"} THEN cell ELSE NaN

Plus(a, b) == Frac(a.num * b.den + b.num * a.den, a.den * b.den)

Times(a, b) == Frac(a.num * b.num, a.den * b.den)

RECURSIVE SumCells(_)
SumCells(cells) == IF cells = <<>> THEN F(0) ELSE Plus(cells[1], SumCells(Tail(cells)))

\* Series.mean(): the mean of the non-NaN cells, NaN when there is none.
MeanOf(cells) ==
    LET valid == SelectSeq(cells, LAMBDA x : x # NaN)
    IN  IF valid = <<>> THEN NaN ELSE Times(SumCells(valid), Frac(1, Len(valid)))

\* Series.std(): the sample standard deviation (ddof = 1) of two or more
\* numbers.
StdOf(cells) ==
    LET n == Len(cells)
        mean == MeanOf(cells)
        squares == [i \in DOMAIN cells |->
                       Times(Minus(cells[i], mean), Minus(cells[i], mean))]
        variance == Times(SumCells(squares), Frac(1, n - 1))
    IN  Root(variance.num, variance.den)

\* The elements of a set of integers in ascending order (the groups of a
\* groupby).
RECURSIVE SortedSeq(_)
SortedSeq(S) ==
    IF S = {} THEN <<>> ELSE <<Minimum(S)>> \o SortedSeq(S \ {Minimum(S)})

\* window = df[(df["_ts"] > lo) & (df["_ts"] <= t)].sort_values("_ts")
WindowOf(rows, t, window_seconds) ==
    sort_values(SelectSeq(rows, LAMBDA r : InWindow(r._ts, t, window_seconds)), "_ts")

\* .groupby("driver_number")[col]: the cells of one driver, in window order.
DriverCells(window, driver_number, col) ==
    LET own == SelectSeq(window, LAMBDA r : r.driver_number = driver_number)
    IN  [k \in DOMAIN own |-> own[k][col]]

DriversOf(window) == SortedSeq({window[k].driver_number : k \in DOMAIN window})

\* s.diff().abs(): the absolute differences of consecutive cells.
AbsDiffs(cells) ==
    [k \in 1..(Len(cells) - 1) |->
        LET d == Minus(cells[k + 1], cells[k])
        IN  IF d = NaN THEN NaN ELSE Frac(IF d.num < 0 THEN -d.num ELSE d.num, d.den)]

_position_changes_in_window(pos_rows, t, window_seconds) ==
    LET window == WindowOf(pos_rows, t, window_seconds)
        drivers == DriversOf(window)
        changes(d) == Len(SelectSeq(AbsDiffs(DriverCells(window, d, "position")),
                                    LAMBDA x : x # NaN /\ x.num > 0))
    IN  IF window = <<>> THEN 0
        ELSE SumOf([k \in DOMAIN drivers |-> changes(drivers[k])])

_position_volatility_in_window(pos_rows, t, window_seconds) ==
    LET window == WindowOf(pos_rows, t, window_seconds)
        drivers == DriversOf(window)
        per_driver == [k \in DOMAIN drivers |->
                          MeanOf(AbsDiffs(DriverCells(window, drivers[k], "position")))]
    IN  IF window = <<>> THEN F(0) ELSE MeanOf(per_driver)

\* .groupby("driver_number").last()[col].dropna(): the last non-null cell
\* of every driver that has one.
LatestOf(window, col) ==
    LET drivers == DriversOf(window)
        cells(d) == SelectSeq(DriverCells(window, d, col), LAMBDA x : x # NaN)
        having == SelectSeq(drivers, LAMBDA d : cells(d) # <<>>)
    IN  [k \in DOMAIN having |-> cells(having[k])[Len(cells(having[k]))]]

\* (intervals_vals < limit).sum() / n_drivers, limit given in tenths
PackDensity(intervals_vals, tenths) ==
    IF intervals_vals = <<>> THEN NaN
    ELSE Frac(Len(SelectSeq(intervals_vals, LAMBDA x : 10 * x.num < tenths * x.den)),
              Len(intervals_vals))

\* The gap cells of the grid row at t.
GapCells(ivl_rows, t) ==
    LET window == WindowOf(ivl_rows, t, dynamics_window)
        gaps == LatestOf(window, "gap_to_leader")
        intervals_vals == LatestOf(window, "interval")
    IN  IF window = <<>>
        THEN [gap_std_120s |-> NaN, pack_density_1_5s |-> NaN, pack_density_3_0s |-> NaN]
        ELSE [gap_std_120s |-> IF Len(gaps) > 1 THEN StdOf(gaps) ELSE NaN,
              pack_density_1_5s |-> PackDensity(intervals_vals, 15),
              pack_density_3_0s |-> PackDensity(intervals_vals, 30)]

\* position_df[position_df[session_col] == session_key] when the table has
\* rows and the session column, the whole table when it only has rows, else
\* pd.DataFrame()
SessionSlice(df, session_col, session_key) ==
    IF ~IsEmpty(df) /\ session_col \in df.columns THEN FilterEq(df, session_col, session_key)
    ELSE IF ~IsEmpty(df) THEN df
    ELSE EmptyFrame

\* The rows of pos with _ts and a numeric position, without the rows that
\* lack either.
PositionRows(pos) ==
    LET parsed == [j \in DOMAIN pos.rows |->
                      Extend(pos.rows[j],
                             [_ts |-> to_datetime(pos.rows[j].date),
                              position |-> to_numeric(pos.rows[j].position)])]
        kept == SelectSeq(parsed, LAMBDA r : r._ts # NaT /\ r.position # NaN)
    IN  [j \in DOMAIN kept |-> [kept[j] EXCEPT !._ts = Val(@)]]

\* The rows of ivl with _ts and numeric gap_to_leader and interval, without
\* the rows that lack _ts.
IntervalRows(ivl) ==
    LET parsed == [j \in DOMAIN ivl.rows |->
                      Extend(ivl.rows[j],
                             [_ts |-> to_datetime(ivl.rows[j].date),
                              gap_to_leader |-> to_numeric(ivl.rows[j].gap_to_leader),
                              interval |-> IF "interval" \in ivl.columns
                                           THEN to_numeric(ivl.rows[j].interval)
                                           ELSE NaN])]
        kept == SelectSeq(parsed, LAMBDA r : r._ts # NaT)
    IN  [j \in DOMAIN kept |-> [kept[j] EXCEPT !._ts = Val(@)]]

DynamicsColumns ==
    {"position_changes_120s", "driver_position_volatility_300s", "gap_std_120s",
     "pack_density_1_5s", "pack_density_3_0s"}

\* One iteration of the loop over the sessions of the grid.
DynamicsFrame(timeline_df, position_df, intervals_df, session_col, session_key) ==
    LET tl == FilterEq(timeline_df, session_col, session_key)
        pos == SessionSlice(position_df, session_col, session_key)
        ivl == SessionSlice(intervals_df, session_col, session_key)
        has_position == ~IsEmpty(pos) /\ {"date", "position"} \subseteq pos.columns
        pos_rows == PositionRows(pos)
        has_gap == ~IsEmpty(ivl) /\ {"date", "gap_to_leader"} \subseteq ivl.columns
        ivl_rows == IntervalRows(ivl)
        position_cells(t) ==
            IF has_position /\ pos_rows # <<>>
            THEN [position_changes_120s |->
                      _position_changes_in_window(pos_rows, t, dynamics_window),
                  driver_position_volatility_300s |->
                      _position_volatility_in_window(pos_rows, t, dynamics_long_window)]
            ELSE [position_changes_120s |-> 0, driver_position_volatility_300s |-> F(0)]
        gap_cells(t) ==
            IF has_gap THEN GapCells(ivl_rows, t)
            ELSE [gap_std_120s |-> NaN, pack_density_1_5s |-> NaN,
                  pack_density_3_0s |-> NaN]
        \* .groupby("driver_number") of a window that holds rows
        grouped(rows, window_seconds) ==
            \E i \in DOMAIN tl.rows :
                WindowOf(rows, tl.rows[i].timestamp, window_seconds) # <<>>
    IN  IF \/ /\ has_position
              /\ "driver_number" \notin pos.columns
              /\ grouped(pos_rows, dynamics_window)
           \/ /\ has_gap
              /\ "driver_number" \notin ivl.columns
              /\ grouped(ivl_rows, dynamics_window)
        THEN Raised("KeyError")
        ELSE Ok(AssignColumns(tl, DynamicsColumns,
                    [i \in DOMAIN tl.rows |->
                        Extend(position_cells(tl.rows[i].timestamp),
                               gap_cells(tl.rows[i].timestamp))]))

build_dynamics_features(timeline_df, position_df, intervals_df, session_col) ==
    LET sessions == Unique(timeline_df.rows, session_col)
    IN  Collect([k \in DOMAIN sessions |->
                    DynamicsFrame(timeline_df, position_df, intervals_df, session_col,
                                  sessions[k])],
                timeline_df)

(***************************************************************************)
(* feature_pipeline.py: _load_bronze, process_session.  The bronze store   *)
(* of a session gives, for every endpoint, the table of its Parquet file,  *)
(* or nothing when the file does not exist.                                *)
(***************************************************************************)
\* _load_bronze: pd.DataFrame() when the file does not exist.
_load_bronze(bronze, endpoint) ==
    IF bronze[endpoint] = None THEN EmptyFrame ELSE Val(bronze[endpoint])

\* The next step of process_session on the frame of the step before, unless
\* that step raised.
AndThen(outcome, Step(_)) ==
    IF outcome.error # "none" THEN outcome
    ELSE Step(Table(outcome.columns, outcome.rows))

\* timeline = assign_labels(timeline, sc_events): the grid with the two label
\* columns, for events that are timestamps.
WithLabels(timeline, sc_events) ==
    LET labels == assign_labels(timeline.rows,
                                [k \in DOMAIN sc_events |-> Val(sc_events[k])], None, None)
    IN  AssignColumns(timeline, {"y_sc_5m", "time_to_sc_seconds"},
            [i \in DOMAIN timeline.rows |->
                [y_sc_5m |-> labels[i].y_sc_5m,
                 time_to_sc_seconds |-> labels[i].time_to_sc_seconds]])

process_session(session, bronze) ==
    LET timeline == build_session_timeline(session, None)
        race_control == _load_bronze(bronze, "race_control")
        weather == _load_bronze(bronze, "weather")
        position == _load_bronze(bronze, "position")
        laps == _load_bronze(bronze, "laps")
        sc_events == IF ~IsEmpty(race_control) THEN detect_sc_events(race_control)
                     ELSE <<>>
    IN  IF IsEmpty(timeline) THEN Ok(EmptyFrame)
        ELSE AndThen(
                 AndThen(build_text_features(WithLabels(timeline, sc_events), race_control,
                                             "session_key"),
                         LAMBDA df : build_weather_features(df, weather, "session_key")),
                 LAMBDA df : build_dynamics_features(df, position, laps, "session_key"))

(***************************************************************************)
(* Inputs of process_session: a session whose grid has at most             *)
(* MaxSpan + 1 points (or none), and for every endpoint no file, a table   *)
(* without rows, or a table of at most MaxTableRows rows.                  *)
(***************************************************************************)
\* The columns of the bronze tables the feature builders read, and the
\* session column the ingestion attaches.
RaceControlColumns == LogColumns \cup {"session_key"}

WeatherColumns == {"date", "session_key", "rainfall", "track_temperature"}

PositionColumns == {"date", "session_key", "driver_number", "position"}

IntervalColumns == {"date", "session_key", "driver_number", "gap_to_leader", "interval"}

\* FastF1 laps: no gap_to_leader.
LapColumns == {"date", "session_key", "driver_number", "lap_number"}

\* Timestamps of table rows: on a grid point and between two grid points.
RowDates == {Some(Naive(0)), Some(Naive(grid_interval_seconds + 15))}

\* Race-control rows: a deployment, the end of the period, a yellow flag.
RaceControlRows ==
    {Extend(r, [session_key |-> 1]) :
        r \in {StartRow(d) : d \in RowDates} \cup {EndRow(d) : d \in RowDates}
                \cup {LogRow(d, Some("Flag"), Some("YELLOW"),
                             Some(<<"YELLOW", "IN", "SECTOR">>)) : d \in RowDates}}

\* Weather rows, also with a date that is not a timestamp.
WeatherRows ==
    {[date |-> d, session_key |-> 1, rainfall |-> r, track_temperature |-> F(30 + r.num)] :
        d \in RowDates \cup {Some(Text)}, r \in {F(0), F(1)}}

PositionRowInputs ==
    {[date |-> d, session_key |-> 1, driver_number |-> n, position |-> p] :
        d \in RowDates, n \in {1, 44}, p \in {F(1), F(2)}}

IntervalRowInputs ==
    {[date |-> d, session_key |-> 1, driver_number |-> n, gap_to_leader |-> F(g),
      interval |-> F(g)] :
        d \in RowDates, n \in {1, 44}, g \in {1, 4}}

LapRowInputs ==
    {[date |-> d, session_key |-> 1, driver_number |-> n, lap_number |-> F(1)] :
        d \in RowDates, n \in {1, 44}}

\* No two rows of one driver at one timestamp.
OneRowPerDriverAndDate(rows) ==
    \A i, j \in DOMAIN rows :
        (i # j /\ rows[i].driver_number = rows[j].driver_number) =>
            rows[i].date # rows[j].date

\* No file, a table without rows, or a table of rows.
Stored(columns, row_seqs) ==
    {None, Some(Table(columns, <<>>))}
        \cup {Some(Table(columns, rows)) : rows \in row_seqs \ {<<>>}}

RaceControlFiles == Stored(RaceControlColumns, SeqsUpTo(RaceControlRows, MaxTableRows))

WeatherFiles == Stored(WeatherColumns, SeqsUpTo(WeatherRows, MaxTableRows))

PositionFiles ==
    Stored(PositionColumns,
           {rows \in SeqsUpTo(PositionRowInputs, MaxTableRows) : OneRowPerDriverAndDate(rows)})

LapFiles ==
    Stored(IntervalColumns,
           {rows \in SeqsUpTo(IntervalRowInputs, MaxTableRows) : OneRowPerDriverAndDate(rows)})
        \cup Stored(LapColumns, SeqsUpTo(LapRowInputs, 1))

\* The stores in which one endpoint varies next to a deployment in the race
\* control, or to no race control, and to no other file.
BronzeInputs ==
    LET rc == {None, Some(Table(RaceControlColumns,
                                <<Extend(StartRow(Some(Naive(grid_interval_seconds + 15))),
                                         [session_key |-> 1])>>))}
    IN  [race_control : RaceControlFiles, weather : {None}, position : {None}, laps : {None}]
        \cup [race_control : rc, weather : WeatherFiles, position : {None}, laps : {None}]
        \cup [race_control : rc, weather : {None}, position : PositionFiles, laps : {None}]
        \cup [race_control : rc, weather : {None}, position : {None}, laps : LapFiles]

\* Sessions of key 1: with an unparseable start, without end, and with a
\* grid of 1 .. MaxSpan + 1 points.
SessionInputs ==
    {Session(1, s, e) :
        s \in {Some(Text), Some(Naive(0))},
        e \in {None} \cup {Some(Naive(k * grid_interval_seconds)) : k \in 0..MaxSpan}}

InitProcess ==
    /\ pc = "call"
    /\ ret = None
    /\ fn = "process_session"
    /\ \E s \in SessionInputs, b \in BronzeInputs : args = [session |-> s, bronze |-> b]

ProcessSession ==
    /\ pc = "call"
    /\ fn = "process_session"
    /\ ret' = process_session(args.session, args.bronze)
    /\ pc' = "return"
    /\ UNCHANGED <<fn, args>>

NextProcess == ProcessSession

SpecProcess == InitProcess /\ [][NextProcess]_vars

(***************************************************************************)
(* Properties of process_session.                                          *)
(***************************************************************************)
\* The endpoint has no file or a table without rows.
HasNoRows(bronze, endpoint) == IsEmpty(_load_bronze(bronze, endpoint))

\* Every row of the frame holds the given cell in every one of the columns.
AllCellsAre(df, columns, cell) ==
    /\ columns \subseteq df.columns
    /\ \A i \in DOMAIN df.rows : \A c \in columns : df.rows[i][c] = cell

\* C24: for a session with valid bounds process_session raises nothing and
\* returns one labelled row per grid point, whichever of the race-control,
\* weather, position and lap tables are missing or empty; the text columns
\* hold their defaults and every label is 0 when there is no race-control
\* row, the weather columns are null when there is no weather row, the
\* position columns are 0 when there is no position row and the gap columns
\* are null when there is no lap row.
C24_MissingTablesAreNeverFatal ==
    (Returned("process_session") /\ HasValidBounds(args.session)) =>
        /\ ret.error = "none"
        /\ TimestampsOf(ret.rows)
               = SortedSeq(GridPoints(args.session, grid_interval_seconds))
        /\ {"y_sc_5m", "time_to_sc_seconds"} \subseteq ret.columns
        /\ HasNoRows(args.bronze, "race_control") =>
               /\ AllCellsAre(ret, {"y_sc_5m"}, 0)
               /\ \A col \in TextColumns : AllCellsAre(ret, {col}, TextDefault(col))
        /\ HasNoRows(args.bronze, "weather") =>
               AllCellsAre(ret, WEATHER_COLS \cup {"max_rainfall_5m", "track_temp_delta_5m"},
                           NaN)
        /\ HasNoRows(args.bronze, "position") =>
               /\ AllCellsAre(ret, {"position_changes_120s"}, 0)
               /\ AllCellsAre(ret, {"driver_position_volatility_300s"}, F(0))
        /\ HasNoRows(args.bronze, "laps") =>
               AllCellsAre(ret, {"gap_std_120s", "pack_density_1_5s", "pack_density_3_0s"},
                           NaN)

(***************************************************************************)
(* feature_pipeline.py: run_feature_pipeline.  The bronze root is the      *)
(* sequence of its session directories in the order of the discovery loop  *)
(* (sorted by name).  A directory holds what reading its session.parquet   *)
(* gives, the endpoint tables of the session, and whether the silver file  *)
(* of the session can be written.                                          *)
(***************************************************************************)
\* session.parquet: absent, a file pd.read_parquet raises on, or a table of
\* session records.
NoSessionFile == [exists |-> FALSE, readable |-> TRUE, rows |-> <<>>]

UnreadableSessionFile == [exists |-> TRUE, readable |-> FALSE, rows |-> <<>>]

SessionFile(rows) == [exists |-> TRUE, readable |-> TRUE, rows |-> rows]

SessionDir(session_file, bronze, writable) ==
    [session_file |-> session_file, bronze |-> bronze, writable |-> writable]

\* The run ends with an exception: the silver files written before it, no
\* gold file.
Aborted(error, silver) == [error |-> error, silver |-> silver, gold |-> None]

\* The run returns: the silver files and the gold file it wrote, if any.
Completed(silver, gold) == [error |-> "none", silver |-> silver, gold |-> gold]

\* The discovery loop: session_df.iloc[0] of every session.parquet that
\* exists and holds a row, with the directory it was read from.
all_sessions(dirs) ==
    LET found == SelectSeq(dirs, LAMBDA d : d.session_file.exists
                                              /\ d.session_file.rows # <<>>)
    IN  [k \in DOMAIN found |->
            [session |-> found[k].session_file.rows[1], dir |-> found[k]]]

\* One iteration of the loop over all_sessions, given what the call of
\* process_session in its try block gave: the error that ended the loop, the
\* silver files written and gold_frames.
SessionStep(before, s, outcome) ==
    IF before.error # "none" THEN before
    \* except Exception: log, continue
    ELSE IF outcome.error # "none" THEN before
    \* if df.empty: continue
    ELSE IF IsEmpty(Table(outcome.columns, outcome.rows)) THEN before
    \* df.to_parquet(silver_path)
    ELSE IF ~s.dir.writable THEN [before EXCEPT !.error = "OSError"]
    ELSE [error |-> "none",
          silver |-> Append(before.silver, s.session.session_key),
          gold_frames |-> Append(before.gold_frames,
                                 Table(outcome.columns, outcome.rows))]

\* df = process_session(session) in the try block, for every session the
\* loop can reach.
Processed(sessions) ==
    [k \in DOMAIN sessions |->
        process_session(sessions[k].session, sessions[k].dir.bronze)]

\* The loop over all_sessions.  Only process_session is inside the try block.
RECURSIVE FeatureLoop(_, _)
FeatureLoop(sessions, outcomes) ==
    IF sessions = <<>> THEN [error |-> "none", silver |-> <<>>, gold_frames |-> <<>>]
    ELSE SessionStep(FeatureLoop(SubSeq(sessions, 1, Len(sessions) - 1),
                                 SubSeq(outcomes, 1, Len(sessions) - 1)),
                     sessions[Len(sessions)], outcomes[Len(sessions)])

\* master = pd.concat(gold_frames).sort_values(["session_key", "timestamp"])
Master(combined) ==
    Table(combined.columns,
          sort_values(sort_values(combined.rows, "timestamp"), "session_key"))

\* The end of the run after the loop.
SaveGold(loop) ==
    IF loop.error # "none" THEN Aborted(loop.error, loop.silver)
    ELSE IF loop.gold_frames = <<>> THEN Completed(loop.silver, None)
    ELSE Completed(loop.silver, Some(Master(concat(loop.gold_frames))))

run_feature_pipeline(dirs) ==
    \* pd.read_parquet(session_parquet)
    IF \E k \in DOMAIN dirs : dirs[k].session_file.exists
                                  /\ ~dirs[k].session_file.readable
    THEN Aborted("ArrowInvalid", <<>>)
    ELSE IF all_sessions(dirs) = <<>> THEN Completed(<<>>, None)
    ELSE SaveGold(FeatureLoop(all_sessions(dirs), Processed(all_sessions(dirs))))

(***************************************************************************)
(* Inputs of run_feature_pipeline: at most MaxDirs session directories.    *)
(***************************************************************************)
\* The session keys of the directories, in the order of their names.
DirKeys == <<10, 9, 91, 92>>

\* A session of one default interval, with or without a start that parses.
DirSessions(key) ==
    {Session(key, s, Some(Naive(grid_interval_seconds))) : s \in {Some(Naive(0)), Some(Text)}}

\* No endpoint file, or a race-control file with one deployment.
DirBronze(key) ==
    [race_control : {None,
                     Some(Table(RaceControlColumns,
                                <<Extend(StartRow(Some(Naive(15))), [session_key |-> key])>>))},
     weather : {None}, position : {None}, laps : {None}]

NoBronze == [race_control |-> None, weather |-> None, position |-> None, laps |-> None]

DirInputs(key) ==
    {SessionDir(f, NoBronze, TRUE) :
        f \in {NoSessionFile, UnreadableSessionFile, SessionFile(<<>>)}}
    \cup {SessionDir(SessionFile(<<s>>), b, w) :
             s \in DirSessions(key), b \in DirBronze(key), w \in BOOLEAN}

\* The roots of n directories: the k-th holds the session of key DirKeys[k].
RECURSIVE RootsOf(_)
RootsOf(n) ==
    IF n = 0 THEN {<<>>}
    ELSE {Append(dirs, d) : dirs \in RootsOf(n - 1), d \in DirInputs(DirKeys[n])}

BronzeRoots == UNION {RootsOf(n) : n \in 0..MaxDirs}

InitPipeline ==
    /\ pc = "call"
    /\ ret = None
    /\ fn = "run_feature_pipeline"
    /\ \E dirs \in BronzeRoots : args = [dirs |-> dirs]

RunFeaturePipeline ==
    /\ pc = "call"
    /\ fn = "run_feature_pipeline"
    /\ ret' = run_feature_pipeline(args.dirs)
    /\ pc' = "return"
    /\ UNCHANGED <<fn, args>>

NextPipeline == RunFeaturePipeline

SpecPipeline == InitPipeline /\ [][NextPipeline]_vars

(***************************************************************************)
(* Properties of run_feature_pipeline.                                     *)
(***************************************************************************)
\* The session of the directory is discovered, processed and saved without
\* an exception, and has rows.
Succeeds(dir) ==
    /\ dir.session_file.exists
    /\ dir.session_file.readable
    /\ dir.session_file.rows # <<>>
    /\ LET outcome == process_session(dir.session_file.rows[1], dir.bronze)
       IN  outcome.error = "none" /\ outcome.rows # <<>>
    /\ dir.writable

KeyOfDir(dir) == dir.session_file.rows[1].session_key

\* C23: run_feature_pipeline never ends with an exception; it writes the
\* silver file of exactly the sessions whose discovery, processing and
\* saving succeed, whatever happens to the other sessions, and when there is
\* such a session it writes the master table, which holds exactly the rows
\* of those sessions in (session id, timestamp) order.
C23_FailuresAreIsolatedPerSession ==
    Returned("run_feature_pipeline") =>
        LET succeeded == SelectSeq(args.dirs, Succeeds)
            keys == {KeyOfDir(succeeded[k]) : k \in DOMAIN succeeded}
        IN  /\ ret.error = "none"
            /\ SeqRange(ret.silver) = keys
            /\ (succeeded = <<>>) = (ret.gold = None)
            /\ succeeded # <<>> =>
                  /\ IsSortedGrid(Val(ret.gold).rows)
                  /\ \A i \in DOMAIN Val(ret.gold).rows :
                         Val(ret.gold).rows[i].session_key \in keys
                  /\ \A k \in DOMAIN succeeded :
                         GridKeys(FilterEq(Val(ret.gold), "session_key",
                                           KeyOfDir(succeeded[k])).rows)
                             = GridKeys(process_session(succeeded[k].session_file.rows[1],
                                                        succeeded[k].bronze).rows)

====
